---- MODULE Spec2Model ----
(***************************************************************************)
(* The registered-instance mechanism of the Hetzner Robot API client.      *)
(*                                                                         *)
(* The repository carries two implementations of the client module:       *)
(*   "proxy": src/index.js, a constructor function whose closure holds    *)
(*            _customServers / _customStorageBoxes (name -> key) and whose *)
(*            this.server / this.storageBox are Proxy lookups by name;     *)
(*   "class": src/unnamed/part_003 lines 2392-3791, class Robot with the   *)
(*            module-level WeakMaps ServerCache / StorageBoxCache          *)
(*            (client -> Map key -> IdentifiedServer/IdentifiedStorageBox).*)
(* The variable impl says which of the two the caller has loaded.          *)
(***************************************************************************)
EXTENDS Integers, Sequences, FiniteSets, TLC

VARIABLES
  impl,                 \* "proxy" or "class": the module behind require('../index')
  _customServers,       \* proxy: per client, property key -> bound value
  _customStorageBoxes,  \* proxy: per client, property key -> bound value
  ServerCache,          \* class: WeakMap client -> Map(key -> handle)
  StorageBoxCache,      \* class: WeakMap client -> Map(key -> handle)
  heap,                 \* the handle objects created so far, by object identity
  last,                 \* the most recent call of the caller and its outcome
  wire,                 \* the HTTP requests handed to the REST client, in order
  promises,             \* the promises returned to the caller, in order
  uncaught,             \* errors thrown inside callbacks of the REST client
  clientsDatabase       \* mock server: the names it holds for its server and storage box

\* the variables of the network side
ioVars == << wire, promises, uncaught, clientsDatabase >>

vars == << impl, _customServers, _customStorageBoxes, ServerCache,
           StorageBoxCache, heap, last, wire, promises, uncaught, clientsDatabase >>

(***************************************************************************)
(* Bounds of the model.                                                    *)
(***************************************************************************)
MaxHandles == 2

Clients == {"A"}
Impls == {"proxy", "class"}
Kinds == {"server", "storageBox"}

(***************************************************************************)
(* JavaScript values: undefined, strings (sequences of characters) and     *)
(* numbers.  Every value has the same three fields.                        *)
(***************************************************************************)
Undefined == [t |-> "undefined", s |-> << >>, n |-> 0]
Str(s) == [t |-> "string", s |-> s, n |-> 0]
Num(n) == [t |-> "number", s |-> << >>, n |-> n]

DigitChar(d) == << "0", "1", "2", "3", "4", "5", "6", "7", "8", "9" >>[d + 1]

RECURSIVE Digits(_)
Digits(n) ==
  IF n < 10 THEN << DigitChar(n) >>
  ELSE Append(Digits(n \div 10), DigitChar(n % 10))

\* String(v), as used by  'server/' + ipAddress  and by property access obj[v]
StringOf(v) ==
  CASE v.t = "string" -> v.s
    [] v.t = "number" -> Digits(v.n)
    [] OTHER -> << "u", "n", "d", "e", "f", "i", "n", "e", "d" >>

ToPropertyKey(v) == StringOf(v)

\* typeof v === 'undefined'
IsUndefined(v) == v.t = "undefined"

\* v.length < k  (undefined < k is false for a value without length)
LengthBelow(v, k) == v.t = "string" /\ Len(v.s) < k

\* v.length === 0
LengthIsZero(v) == v.t = "string" /\ Len(v.s) = 0

\* a || b without the fallback: a
OrElse_First(a, b) == a

\* a || b
OrElse(a, b) ==
  IF IsUndefined(a) \/ (a.t = "string" /\ Len(a.s) = 0) \/ (a.t = "number" /\ a.n = 0)
  THEN b ELSE a

\* arguments[i], undefined when the caller passed fewer
Arg(args, i) == IF i <= Len(args) THEN args[i] ELSE Undefined

(***************************************************************************)
(* The values the caller passes in this model.                             *)
(***************************************************************************)
Empty == Str(<< >>)
Key1234 == Str(<< "1", "2", "3", "4" >>)
Ip1 == Str(<< "1", ".", "2", ".", "3", ".", "4" >>)
Id1234 == Num(1234)
NewName == Str(<< "n" >>)

\* first arguments of the registry operations, and (proxy) the second argument
\* of registerServer / registerStorageBox
KeyInputs(kind) ==
  IF kind = "server" THEN {Undefined, Empty, Key1234, Ip1}
  ELSE {Undefined, Empty, Id1234}
ValueInputs(kind) ==
  IF kind = "server" THEN {Undefined, Ip1} ELSE {Undefined, Id1234}

EmptyMap == [k \in {} |-> Undefined]
MapSet(m, k, v) == [x \in (DOMAIN m) \cup {k} |-> IF x = k THEN v ELSE m[x]]
MapDelete(m, k) == [x \in (DOMAIN m) \ {k} |-> m[x]]

(***************************************************************************)
(* Outcome of one synchronous call: whether it threw, the error, the       *)
(* handle it returned (0: none), the requests it issued, and the registries*)
(* and heap it leaves behind.                                              *)
(***************************************************************************)
NoError == [msg |-> "", arg |-> << >>]
Error(msg, arg) == [msg |-> msg, arg |-> arg]

Outcome(thrown, error, ret, req, cs, csb, sc, sbc, hp) ==
  [thrown |-> thrown, error |-> error, ret |-> ret, req |-> req,
   cs |-> cs, csb |-> csb, sc |-> sc, sbc |-> sbc, heap |-> hp]

Throw(error) ==
  Outcome(TRUE, error, 0, << >>, _customServers, _customStorageBoxes,
          ServerCache, StorageBoxCache, heap)

\* calling something that is not a function
TypeError(name) == Throw(Error("TypeError: %s is not a function", name))

Request(c, verb, base, arg, data) ==
  [client |-> c, verb |-> verb, base |-> base, arg |-> arg, data |-> data]

\* One outbound request, its promise returned to the caller.
\* arg: << >> when the URI is the bare collection, << s >> for  base + '/' + s.
_createRequest(c, verb, base, arg, data) ==
  Outcome(FALSE, NoError, 0, << Request(c, verb, base, arg, data) >>,
          _customServers, _customStorageBoxes, ServerCache, StorageBoxCache, heap)

(***************************************************************************)
(* Endpoint methods (a sample of the table; the same bodies in both        *)
(* implementations unless noted).                                          *)
(***************************************************************************)
queryServers(c, args) == _createRequest(c, "get", "/server", << >>, << >>)

queryServer(c, args) ==
  LET ipAddress == Arg(args, 1) IN
  IF IsUndefined(ipAddress) THEN Throw(Error("Server IP is missing.", << >>))
  ELSE _createRequest(c, "get", "/server", << StringOf(ipAddress) >>, << >>)

\* proxy: setServerName; class: updateServerName
updateServerName(c, args) ==
  LET ipAddress == Arg(args, 1)
      newName == Arg(args, 2) IN
  IF IsUndefined(ipAddress) THEN Throw(Error("Server IP is missing.", << >>))
  ELSE IF IsUndefined(newName) THEN Throw(Error("New server name is missing.", << >>))
  ELSE _createRequest(c, "post", "/server", << StringOf(ipAddress) >>,
                      << << "server_name", newName >> >>)

resetServer(c, args) ==
  LET ipAddress == Arg(args, 1)
      resetType == OrElse(Arg(args, 2), Str(<< "s", "w" >>)) IN
  IF IsUndefined(ipAddress) THEN Throw(Error("Server IP is missing.", << >>))
  ELSE _createRequest(c, "post", "/reset", << StringOf(ipAddress) >>,
                      << << "type", resetType >> >>)

queryStorageBoxes(c, args) ==
  LET storageBoxId == Arg(args, 1) IN
  _createRequest(c, "get", "/storagebox",
                 IF IsUndefined(storageBoxId) THEN << >> ELSE << StringOf(storageBoxId) >>,
                 << >>)

\* class only
queryStorageBox(c, args) == queryStorageBoxes(c, << Arg(args, 1) >>)

updateStorageBoxName(c, args) ==
  LET storageBoxId == Arg(args, 1)
      newName == Arg(args, 2) IN
  IF IsUndefined(storageBoxId) THEN Throw(Error("StorageBox ID is missing.", << >>))
  ELSE IF IsUndefined(newName) THEN Throw(Error("New storageBox name is missing.", << >>))
  ELSE _createRequest(c, "post", "/storagebox", << StringOf(storageBoxId) >>,
                      << << "storagebox_name", newName >> >>)

(***************************************************************************)
(* proxy implementation: registry by name, handles made by the get traps.  *)
(***************************************************************************)
\* The object the inner  Object.create(new Proxy({}, ...))  yields.  name is
\* the closure's serverName / storageBoxName.  key records the value the
\* registry held for name when the object was made (the closure itself keeps
\* only the name); testProperty is a property the caller may attach.
ProxyHandle(c, kind, name, reg) ==
  [client |-> c, kind |-> kind, name |-> name, key |-> reg[name],
   testProperty |-> Undefined]

\* mutant: the lookup removes the entry it has found
server_Forgets(c, serverName) ==
  LET name == ToPropertyKey(serverName) IN
  IF name \in DOMAIN _customServers[c]
  THEN Outcome(FALSE, NoError, Len(heap) + 1, << >>,
               [_customServers EXCEPT ![c] = MapDelete(@, name)],
               _customStorageBoxes, ServerCache, StorageBoxCache,
               Append(heap, ProxyHandle(c, "server", name, _customServers[c])))
  ELSE Outcome(FALSE, NoError, 0, << >>, _customServers, _customStorageBoxes,
               ServerCache, StorageBoxCache, heap)

\* this.server[serverName]: the outer get trap
server(c, serverName) ==
  LET name == ToPropertyKey(serverName) IN
  IF name \in DOMAIN _customServers[c]
  THEN Outcome(FALSE, NoError, Len(heap) + 1, << >>, _customServers,
               _customStorageBoxes, ServerCache, StorageBoxCache,
               Append(heap, ProxyHandle(c, "server", name, _customServers[c])))
  ELSE Outcome(FALSE, NoError, 0, << >>, _customServers, _customStorageBoxes,
               ServerCache, StorageBoxCache, heap)

\* this.storageBox[storageBoxName]: the outer get trap
storageBox(c, storageBoxName) ==
  LET name == ToPropertyKey(storageBoxName) IN
  IF name \in DOMAIN _customStorageBoxes[c]
  THEN Outcome(FALSE, NoError, Len(heap) + 1, << >>, _customServers,
               _customStorageBoxes, ServerCache, StorageBoxCache,
               Append(heap, ProxyHandle(c, "storageBox", name, _customStorageBoxes[c])))
  ELSE Outcome(FALSE, NoError, 0, << >>, _customServers, _customStorageBoxes,
               ServerCache, StorageBoxCache, heap)

\* mutant: no check for a name that is already registered (the entry is overwritten)
ProxyRegisterServer_Overwrite(c, args) ==
  LET serverName == Arg(args, 1)
      ipAddress == Arg(args, 2)
      name == ToPropertyKey(serverName) IN
  IF IsUndefined(serverName) THEN Throw(Error("No server name given.", << >>))
  ELSE LET reg == MapSet(_customServers[c], name, ipAddress) IN
       Outcome(FALSE, NoError, Len(heap) + 1, << >>,
               [_customServers EXCEPT ![c] = reg], _customStorageBoxes,
               ServerCache, StorageBoxCache,
               Append(heap, ProxyHandle(c, "server", name, reg)))

ProxyRegisterServer(c, args) ==
  LET serverName == Arg(args, 1)
      ipAddress == Arg(args, 2)
      name == ToPropertyKey(serverName) IN
  IF IsUndefined(serverName) THEN Throw(Error("No server name given.", << >>))
  ELSE IF name \in DOMAIN _customServers[c]
  THEN Throw(Error("The server %s is already registered in this instance.", name))
  ELSE LET reg == MapSet(_customServers[c], name, ipAddress) IN
       \* return this.server[ serverName ]
       Outcome(FALSE, NoError, Len(heap) + 1, << >>,
               [_customServers EXCEPT ![c] = reg], _customStorageBoxes,
               ServerCache, StorageBoxCache,
               Append(heap, ProxyHandle(c, "server", name, reg)))

\* mutant: no check that the name is registered (delete of an absent property)
ProxyUnregisterServer_NoCheck(c, args) ==
  LET serverName == Arg(args, 1)
      name == ToPropertyKey(serverName) IN
  IF IsUndefined(serverName) THEN Throw(Error("No server name given.", << >>))
  ELSE Outcome(FALSE, NoError, 0, << >>,
               [_customServers EXCEPT ![c] = MapDelete(@, name)],
               _customStorageBoxes, ServerCache, StorageBoxCache, heap)

\* mutant: the whole registry is emptied instead of one property deleted
ProxyUnregisterServer_Clears(c, args) ==
  LET serverName == Arg(args, 1)
      name == ToPropertyKey(serverName) IN
  IF IsUndefined(serverName) THEN Throw(Error("No server name given.", << >>))
  ELSE IF name \notin DOMAIN _customServers[c]
  THEN Throw(Error("The server %s is not registered in this instance yet.", name))
  ELSE Outcome(FALSE, NoError, 0, << >>,
               [_customServers EXCEPT ![c] = EmptyMap],
               _customStorageBoxes, ServerCache, StorageBoxCache, heap)

ProxyUnregisterServer(c, args) ==
  LET serverName == Arg(args, 1)
      name == ToPropertyKey(serverName) IN
  IF IsUndefined(serverName) THEN Throw(Error("No server name given.", << >>))
  ELSE IF name \notin DOMAIN _customServers[c]
  THEN Throw(Error("The server %s is not registered in this instance yet.", name))
  ELSE Outcome(FALSE, NoError, 0, << >>,
               [_customServers EXCEPT ![c] = MapDelete(@, name)],
               _customStorageBoxes, ServerCache, StorageBoxCache, heap)

\* mutant: the id is stored in the servers' registry
ProxyRegisterStorageBox_IntoServers(c, args) ==
  LET storageBoxName == Arg(args, 1)
      id == Arg(args, 2)
      name == ToPropertyKey(storageBoxName) IN
  IF IsUndefined(storageBoxName) THEN Throw(Error("No storageBox name given.", << >>))
  ELSE IF name \in DOMAIN _customStorageBoxes[c]
  THEN Throw(Error("The storageBox %s is already registered in this instance.", name))
  ELSE LET reg == MapSet(_customStorageBoxes[c], name, id) IN
       Outcome(FALSE, NoError, Len(heap) + 1, << >>,
               [_customServers EXCEPT ![c] = MapSet(@, name, id)],
               [_customStorageBoxes EXCEPT ![c] = reg],
               ServerCache, StorageBoxCache,
               Append(heap, ProxyHandle(c, "storageBox", name, reg)))

ProxyRegisterStorageBox(c, args) ==
  LET storageBoxName == Arg(args, 1)
      id == Arg(args, 2)
      name == ToPropertyKey(storageBoxName) IN
  IF IsUndefined(storageBoxName) THEN Throw(Error("No storageBox name given.", << >>))
  ELSE IF name \in DOMAIN _customStorageBoxes[c]
  THEN Throw(Error("The storageBox %s is already registered in this instance.", name))
  ELSE LET reg == MapSet(_customStorageBoxes[c], name, id) IN
       \* return this.storageBox[ storageBoxName ]
       Outcome(FALSE, NoError, Len(heap) + 1, << >>, _customServers,
               [_customStorageBoxes EXCEPT ![c] = reg],
               ServerCache, StorageBoxCache,
               Append(heap, ProxyHandle(c, "storageBox", name, reg)))

ProxyUnregisterStorageBox(c, args) ==
  LET storageBoxName == Arg(args, 1)
      name == ToPropertyKey(storageBoxName) IN
  IF IsUndefined(storageBoxName) THEN Throw(Error("No storageBox name given.", << >>))
  ELSE IF name \notin DOMAIN _customStorageBoxes[c]
  THEN Throw(Error("The storageBox %s is not registered in this instance yet.", name))
  ELSE Outcome(FALSE, NoError, 0, << >>, _customServers,
               [_customStorageBoxes EXCEPT ![c] = MapDelete(@, name)],
               ServerCache, StorageBoxCache, heap)

(***************************************************************************)
(* class implementation: identity cache per client.                        *)
(***************************************************************************)
MinIpLength == 7

\* mutant: the constructor does not keep the IP address
IdentifiedServer_NoKey(c, ipAddress) ==
  [client |-> c, kind |-> "server", name |-> << >>, key |-> Undefined,
   testProperty |-> Undefined]

\* new IdentifiedServer(robot, ipAddress): {identifiedServerInstance, ipAddress}
IdentifiedServer(c, ipAddress) ==
  [client |-> c, kind |-> "server", name |-> << >>, key |-> ipAddress,
   testProperty |-> Undefined]

\* new IdentifiedStorageBox(robot, id): {IdentifiedStorageBoxInstance, id}
IdentifiedStorageBox(c, id) ==
  [client |-> c, kind |-> "storageBox", name |-> << >>, key |-> id,
   testProperty |-> Undefined]

\* mutant: one Map for the whole module instead of one per client
ClassRegisterServer_Global(c, args) ==
  LET ipAddress == Arg(args, 1) IN
  IF IsUndefined(ipAddress) \/ LengthBelow(ipAddress, MinIpLength)
  THEN Throw(Error("Missing IP address", << >>))
  ELSE LET cache == IF "A" \in DOMAIN ServerCache THEN ServerCache
                    ELSE MapSet(ServerCache, "A", EmptyMap)
           thisCache == cache["A"] IN
       IF ipAddress \notin DOMAIN thisCache
       THEN Outcome(FALSE, NoError, Len(heap) + 1, << >>, _customServers,
                    _customStorageBoxes,
                    [cache EXCEPT !["A"] = MapSet(thisCache, ipAddress, Len(heap) + 1)],
                    StorageBoxCache, Append(heap, IdentifiedServer(c, ipAddress)))
       ELSE Outcome(FALSE, NoError, thisCache[ipAddress], << >>, _customServers,
                    _customStorageBoxes, cache, StorageBoxCache, heap)

ClassRegisterServer(c, args) ==
  LET ipAddress == Arg(args, 1) IN
  IF IsUndefined(ipAddress) \/ LengthBelow(ipAddress, MinIpLength)
  THEN Throw(Error("Missing IP address", << >>))
  ELSE LET cache == IF c \in DOMAIN ServerCache THEN ServerCache
                    ELSE MapSet(ServerCache, c, EmptyMap)
           thisCache == cache[c] IN
       IF ipAddress \notin DOMAIN thisCache
       THEN Outcome(FALSE, NoError, Len(heap) + 1, << >>, _customServers,
                    _customStorageBoxes,
                    [cache EXCEPT ![c] = MapSet(thisCache, ipAddress, Len(heap) + 1)],
                    StorageBoxCache, Append(heap, IdentifiedServer(c, ipAddress)))
       ELSE Outcome(FALSE, NoError, thisCache[ipAddress], << >>, _customServers,
                    _customStorageBoxes, cache, StorageBoxCache, heap)

ClassRegisterStorageBox(c, args) ==
  LET id == Arg(args, 1) IN
  IF IsUndefined(id) \/ LengthIsZero(id)
  THEN Throw(Error("Missing storageBox ID", << >>))
  ELSE LET cache == IF c \in DOMAIN StorageBoxCache THEN StorageBoxCache
                    ELSE MapSet(StorageBoxCache, c, EmptyMap)
           thisCache == cache[c] IN
       IF id \notin DOMAIN thisCache
       THEN Outcome(FALSE, NoError, Len(heap) + 1, << >>, _customServers,
                    _customStorageBoxes, ServerCache,
                    [cache EXCEPT ![c] = MapSet(thisCache, id, Len(heap) + 1)],
                    Append(heap, IdentifiedStorageBox(c, id)))
       ELSE Outcome(FALSE, NoError, thisCache[id], << >>, _customServers,
                    _customStorageBoxes, ServerCache, cache, heap)

(***************************************************************************)
(* Names a caller may invoke (a sample of the table, the registry          *)
(* operations, the two lookup objects and a name that is no operation).    *)
(***************************************************************************)
\* proxy: the API methods among the own properties of the instance
ProxyEndpoints ==
  {"queryServers", "queryServer", "setServerName", "resetServer",
   "queryStorageBoxes", "updateStorageBoxName"}

\* proxy: _self.hasOwnProperty(methodName)
ProxyOwnProperties ==
  ProxyEndpoints \cup {"server", "storageBox", "registerServer", "unregisterServer",
                       "registerStorageBox", "unregisterStorageBox"}

\* class: the API methods of the class body
ClassEndpoints ==
  {"queryServers", "queryServer", "updateServerName", "resetServer",
   "queryStorageBoxes", "queryStorageBox", "updateStorageBoxName"}

Endpoints(i) == IF i = "proxy" THEN ProxyEndpoints ELSE ClassEndpoints

\* the names the caller invokes in this model: API methods with a required
\* key, with an optional key and with a second parameter, under the name each
\* implementation gives them, the registry operations, a property that is no
\* function and a name that is no operation
ApiNames == {"queryServer", "queryStorageBoxes", "setServerName", "updateServerName"}
RegistryNames ==
  {"registerServer", "unregisterServer", "registerStorageBox", "unregisterStorageBox"}
MethodNames == ApiNames \cup RegistryNames \cup {"server", "fooBar"}

\* robot[m](...args) for an API method m
Endpoint(c, m, args) ==
  CASE m = "queryServers" -> queryServers(c, args)
    [] m = "queryServer" -> queryServer(c, args)
    [] m \in {"setServerName", "updateServerName"} -> updateServerName(c, args)
    [] m = "resetServer" -> resetServer(c, args)
    [] m = "queryStorageBoxes" -> queryStorageBoxes(c, args)
    [] m = "queryStorageBox" -> queryStorageBox(c, args)
    [] m = "updateStorageBoxName" -> updateStorageBoxName(c, args)

registerServer(c, args) ==
  IF impl = "proxy" THEN ProxyRegisterServer(c, args) ELSE ClassRegisterServer(c, args)

registerStorageBox(c, args) ==
  IF impl = "proxy" THEN ProxyRegisterStorageBox(c, args)
  ELSE ClassRegisterStorageBox(c, args)

\* the class has no unregisterServer: calling it is a TypeError
unregisterServer(c, args) ==
  IF impl = "proxy" THEN ProxyUnregisterServer(c, args)
  ELSE TypeError(<< "unregisterServer" >>)

\* the class has no unregisterStorageBox: calling it is a TypeError
unregisterStorageBox(c, args) ==
  IF impl = "proxy" THEN ProxyUnregisterStorageBox(c, args)
  ELSE TypeError(<< "unregisterStorageBox" >>)

\* robot[m](...args) for any name m
Invoke(c, m, args) ==
  CASE m \in Endpoints(impl) -> Endpoint(c, m, args)
    [] m = "registerServer" -> registerServer(c, args)
    [] m = "registerStorageBox" -> registerStorageBox(c, args)
    [] m = "unregisterServer" -> unregisterServer(c, args)
    [] m = "unregisterStorageBox" -> unregisterStorageBox(c, args)
    [] OTHER -> TypeError(<< m >>)

\* mutant: the value is captured when the handle is made, not read at call time
ProxyForward_Captured(h, m, args) ==
  IF m \in ProxyOwnProperties
  THEN Invoke(h.client, m, << h.key >> \o args)
  ELSE Throw(Error("The method %s is not implemented.", << m >>))

\* mutant: the bound value is pushed after the caller's arguments
ProxyForward_Push(h, m, args) ==
  LET reg == IF h.kind = "server" THEN _customServers[h.client]
             ELSE _customStorageBoxes[h.client]
      first == IF h.name \in DOMAIN reg THEN reg[h.name] ELSE Undefined IN
  IF m \in ProxyOwnProperties
  THEN Invoke(h.client, m, args \o << first >>)
  ELSE Throw(Error("The method %s is not implemented.", << m >>))

\* mutant: a name the client does not have yields a function that does nothing
ProxyForward_Silent(h, m, args) ==
  LET reg == IF h.kind = "server" THEN _customServers[h.client]
             ELSE _customStorageBoxes[h.client]
      first == IF h.name \in DOMAIN reg THEN reg[h.name] ELSE Undefined IN
  IF m \in ProxyOwnProperties
  THEN Invoke(h.client, m, << first >> \o args)
  ELSE Outcome(FALSE, NoError, 0, << >>, _customServers, _customStorageBoxes,
               ServerCache, StorageBoxCache, heap)

\* proxy: the function the inner get trap returns for methodName, applied to args
ProxyForward(h, m, args) ==
  LET reg == IF h.kind = "server" THEN _customServers[h.client]
             ELSE _customStorageBoxes[h.client]
      \* args.unshift(_customServers[ serverName ])
      first == IF h.name \in DOMAIN reg THEN reg[h.name] ELSE Undefined IN
  IF m \in ProxyOwnProperties
  THEN Invoke(h.client, m, << first >> \o args)
  ELSE Throw(Error("The method %s is not implemented.", << m >>))

\* class: the function-valued own names of Robot.prototype when the forwarding
\* loop for this kind of handle runs (registerStorageBox is assigned after the
\* loop of IdentifiedServer)
PrototypeMethods(kind) ==
  ClassEndpoints \cup
    (IF kind = "server" THEN {"registerServer"}
     ELSE {"registerServer", "registerStorageBox"})

\* class: IdentifiedServer.prototype[method] / IdentifiedStorageBox.prototype[method]
ClassForward(h, m, args) ==
  IF m \in PrototypeMethods(h.kind) \ {"registerServer", "registerStorageBox"}
  THEN Invoke(h.client, m, << h.key >> \o args)
  ELSE TypeError(<< m >>)

\* handle[m](...args)
HandleInvoke(h, m, args) ==
  IF impl = "proxy" THEN ProxyForward(h, m, args) ELSE ClassForward(h, m, args)

\* robot.server[name] / robot.storageBox[name]; the class has neither object
Lookup(c, kind, name) ==
  IF impl = "proxy"
  THEN IF kind = "server" THEN server(c, name) ELSE storageBox(c, name)
  ELSE Throw(Error("TypeError: cannot read property of undefined", << kind >>))

(***************************************************************************)
(* The caller's steps.  last records the call: who was called (op: the     *)
(* client, a lookup object or a handle h), the name m, the first argument  *)
(* of a registry operation or lookup (key), and what came back.            *)
(***************************************************************************)
RegisterArgs(kind) == {<< k, v >> : k \in KeyInputs(kind), v \in ValueInputs(kind)}
KeyArgs(kind) == {<< k >> : k \in KeyInputs(kind)}
CallerArgs == {<< >>, << NewName >>}
ClientArgs == {<< >>, << Ip1, NewName >>}

Apply(r, op, c, h, m, args) ==
  /\ Len(r.heap) <= MaxHandles
  /\ _customServers' = r.cs
  /\ _customStorageBoxes' = r.csb
  /\ ServerCache' = r.sc
  /\ StorageBoxCache' = r.sbc
  /\ heap' = r.heap
  /\ last' = [op |-> op, c |-> c, h |-> h, m |-> m,
              key |-> IF op = "handle" \/ m \notin RegistryNames \cup Kinds
                      THEN Undefined ELSE Arg(args, 1),
              thrown |-> r.thrown, error |-> r.error, ret |-> r.ret, req |-> r.req]
  /\ UNCHANGED << impl, ioVars >>

RegisterServer ==
  \E c \in Clients, args \in RegisterArgs("server") :
    Apply(registerServer(c, args), "client", c, 0, "registerServer", args)

UnregisterServer ==
  \E c \in Clients, args \in KeyArgs("server") :
    Apply(unregisterServer(c, args), "client", c, 0, "unregisterServer", args)

RegisterStorageBox ==
  \E c \in Clients, args \in RegisterArgs("storageBox") :
    Apply(registerStorageBox(c, args), "client", c, 0, "registerStorageBox", args)

UnregisterStorageBox ==
  \E c \in Clients, args \in KeyArgs("storageBox") :
    Apply(unregisterStorageBox(c, args), "client", c, 0, "unregisterStorageBox", args)

LookupHandle ==
  \E c \in Clients, kind \in Kinds :
    \E args \in KeyArgs(kind) :
      Apply(Lookup(c, kind, args[1]), "lookup", c, 0, kind, args)

ClientCall ==
  \E c \in Clients, m \in MethodNames \ RegistryNames, args \in ClientArgs :
    Apply(Invoke(c, m, args), "client", c, 0, m, args)

HandleCall ==
  \E h \in 1..Len(heap), m \in MethodNames, args \in CallerArgs :
    Apply(HandleInvoke(heap[h], m, args), "handle", heap[h].client, h, m, args)

\* handle.testProperty = 123
SetTestProperty ==
  \E h \in 1..Len(heap) :
    /\ heap' = [heap EXCEPT ![h].testProperty = Num(123)]
    /\ last' = [op |-> "set", c |-> heap[h].client, h |-> h, m |-> "testProperty",
                key |-> Undefined, thrown |-> FALSE, error |-> NoError, ret |-> 0, req |-> << >>]
    /\ UNCHANGED << impl, _customServers, _customStorageBoxes, ServerCache,
                    StorageBoxCache, ioVars >>

\* nothing has been sent yet; the mock server holds its initial names
InitialNames == [server |-> Str(<< "s" >>), storageBox |-> Str(<< "b" >>)]

NoTraffic ==
  /\ wire = << >>
  /\ promises = << >>
  /\ uncaught = << >>
  /\ clientsDatabase = InitialNames

Init ==
  /\ NoTraffic
  /\ impl \in Impls
  /\ _customServers = [c \in Clients |-> EmptyMap]
  /\ _customStorageBoxes = [c \in Clients |-> EmptyMap]
  /\ ServerCache = EmptyMap
  /\ StorageBoxCache = EmptyMap
  /\ heap = << >>
  /\ last = [op |-> "init", c |-> "A", h |-> 0, m |-> "", key |-> Undefined,
             thrown |-> FALSE, error |-> NoError, ret |-> 0, req |-> << >>]

Next ==
  \/ RegisterServer
  \/ UnregisterServer
  \/ RegisterStorageBox
  \/ UnregisterStorageBox
  \/ LookupHandle
  \/ ClientCall
  \/ HandleCall
  \/ SetTestProperty

Spec == Init /\ [][Next]_vars

(***************************************************************************)
(* Vocabulary of the claims.                                               *)
(***************************************************************************)
Registries == << _customServers, _customStorageBoxes, ServerCache, StorageBoxCache >>
RegistriesOf(r) == << r.cs, r.csb, r.sc, r.sbc >>

\* the registry of client c for kind holds an entry for key k
Held(c, kind, k) ==
  IF impl = "proxy"
  THEN ToPropertyKey(k) \in
         DOMAIN (IF kind = "server" THEN _customServers[c] ELSE _customStorageBoxes[c])
  ELSE LET cache == IF kind = "server" THEN ServerCache ELSE StorageBoxCache IN
       c \in DOMAIN cache /\ k \in DOMAIN cache[c]

RegisterOp(c, kind, args) ==
  IF kind = "server" THEN registerServer(c, args) ELSE registerStorageBox(c, args)

UnregisterOp(c, kind, args) ==
  IF kind = "server" THEN unregisterServer(c, args) ELSE unregisterStorageBox(c, args)

RegisterName(kind) == IF kind = "server" THEN "registerServer" ELSE "registerStorageBox"
UnregisterName(kind) ==
  IF kind = "server" THEN "unregisterServer" ELSE "unregisterStorageBox"

\* the lookup of a registered handle: robot.server[name] / robot.storageBox[name]
\* in the proxy implementation, registerServer(ip) / registerStorageBox(id)
\* (get-or-create) in the class implementation
Resolve(c, kind, k) ==
  IF impl = "proxy" THEN Lookup(c, kind, k) ELSE RegisterOp(c, kind, << k >>)

\* what a caller observes of a call: the error raised or the request issued
SameEffect(r1, r2) ==
  r1.thrown = r2.thrown /\ r1.error = r2.error /\ r1.req = r2.req

\* the registry entry a handle was made from is still in place
Intact(h) ==
  IF impl = "proxy"
  THEN LET reg == IF h.kind = "server" THEN _customServers[h.client]
                  ELSE _customStorageBoxes[h.client] IN
       h.name \in DOMAIN reg /\ reg[h.name] = h.key
  ELSE TRUE

Handles == 1..Len(heap)

C2_LookupSameObject ==
  \A c \in Clients : \A kind \in Kinds : \A k \in KeyInputs(kind) :
    Held(c, kind, k) =>
      LET r == Resolve(c, kind, k) IN
      /\ ~r.thrown
      /\ r.ret \in Handles
      /\ heap[r.ret].client = c
      /\ heap[r.ret].kind = kind

(***************************************************************************)
(* C3 (as stated): registering a key that is already registered succeeds   *)
(* and returns the handle the first registration returned, with the        *)
(* properties set on it.                                                   *)
(***************************************************************************)
C3_RegisterTwiceShares ==
  \A c \in Clients : \A kind \in Kinds : \A k \in KeyInputs(kind) :
    Held(c, kind, k) =>
      LET r == RegisterOp(c, kind, << k >>) IN
      /\ ~r.thrown
      /\ r.ret \in Handles
      /\ r.heap = heap
      /\ heap[r.ret].client = c
      /\ heap[r.ret].kind = kind

(***************************************************************************)
(* C4 (as stated): register of a key the registry already holds fails with *)
(* the already-registered error and leaves the registry as it was.         *)
(***************************************************************************)
AlreadyRegistered(kind) ==
  IF kind = "server" THEN "The server %s is already registered in this instance."
  ELSE "The storageBox %s is already registered in this instance."

C4_AsStated ==
  \A c \in Clients : \A kind \in Kinds : \A args \in RegisterArgs(kind) :
    Held(c, kind, args[1]) =>
      LET r == RegisterOp(c, kind, args) IN
      /\ r.thrown
      /\ r.error.msg = AlreadyRegistered(kind)
      /\ RegistriesOf(r) = Registries

(***************************************************************************)
(* C4 (amended): register of a key the registry already holds leaves the   *)
(* registry as it was; in the proxy implementation it fails with the       *)
(* already-registered error naming the key, in the class implementation it *)
(* returns the handle already stored for the key.                          *)
(***************************************************************************)
C4_DuplicateRegister ==
  \A c \in Clients : \A kind \in Kinds : \A args \in RegisterArgs(kind) :
    Held(c, kind, args[1]) =>
      LET r == RegisterOp(c, kind, args) IN
      /\ RegistriesOf(r) = Registries
      /\ r.heap = heap
      /\ impl = "proxy" =>
           /\ r.thrown
           /\ r.error = Error(AlreadyRegistered(kind), ToPropertyKey(args[1]))
      /\ impl = "class" =>
           /\ ~r.thrown
           /\ r.ret = (IF kind = "server" THEN ServerCache ELSE StorageBoxCache)[c][args[1]]

\* a register of a held key has just failed with the already-registered error
C4_Witness ==
  /\ last.op = "client"
  /\ last.m = "registerServer"
  /\ last.thrown
  /\ last.error.msg = AlreadyRegistered("server")
  /\ Held(last.c, "server", last.key)

CurrentKey(h) ==
  IF impl = "proxy"
  THEN LET reg == IF h.kind = "server" THEN _customServers[h.client]
                  ELSE _customStorageBoxes[h.client] IN
       IF h.name \in DOMAIN reg THEN reg[h.name] ELSE Undefined
  ELSE h.key

NotRegistered(kind) ==
  IF kind = "server" THEN "The server %s is not registered in this instance yet."
  ELSE "The storageBox %s is not registered in this instance yet."

NoNameGiven(kind) ==
  IF kind = "server" THEN "No server name given." ELSE "No storageBox name given."

C6_AsStated ==
  \A c \in Clients : \A kind \in Kinds : \A k \in KeyInputs(kind) :
    ~Held(c, kind, k) =>
      LET r == UnregisterOp(c, kind, << k >>) IN
      /\ r.thrown
      /\ r.error.msg = NotRegistered(kind)
      /\ RegistriesOf(r) = Registries

(***************************************************************************)
(* C6 (amended): unregister of a key the registry does not hold raises an  *)
(* error and leaves both registries unchanged; the error is the            *)
(* not-registered error naming the key in the proxy implementation when    *)
(* the key is defined, 'No server name given.' / 'No storageBox name       *)
(* given.' when it is undefined, and a TypeError in the class              *)
(* implementation, which has no unregister operation.                      *)
(***************************************************************************)
C6_UnregisterUnheld ==
  \A c \in Clients : \A kind \in Kinds : \A k \in KeyInputs(kind) :
    ~Held(c, kind, k) =>
      LET r == UnregisterOp(c, kind, << k >>) IN
      /\ r.thrown
      /\ RegistriesOf(r) = Registries
      /\ r.heap = heap
      /\ (impl = "proxy" /\ ~IsUndefined(k)) =>
           r.error = Error(NotRegistered(kind), ToPropertyKey(k))
      /\ (impl = "proxy" /\ IsUndefined(k)) =>
           r.error = Error(NoNameGiven(kind), << >>)
      /\ impl = "class" =>
           r.error = Error("TypeError: %s is not a function", << UnregisterName(kind) >>)

\* an unregister of a defined key that is not held has just failed with the
\* not-registered error, with another key of the same registry still held
C6_Witness ==
  /\ last.op = "client"
  /\ last.m = "unregisterServer"
  /\ last.thrown
  /\ last.error = Error(NotRegistered("server"), ToPropertyKey(last.key))
  /\ ~Held(last.c, "server", last.key)
  /\ DOMAIN _customServers[last.c] # {}

(***************************************************************************)
(* C7: a successful unregister removes exactly the entry for the key:      *)
(* every other entry (of either registry) is unchanged, and right after it *)
(* a lookup of the key finds nothing and a new register of it succeeds.    *)
(***************************************************************************)
C7_UnregisterRemovesExactly ==
  /\ \A c \in Clients : \A k \in KeyInputs("server") :
       LET r == unregisterServer(c, << k >>) IN
       ~r.thrown =>
         /\ Held(c, "server", k)
         /\ r.cs = [_customServers EXCEPT ![c] = MapDelete(@, ToPropertyKey(k))]
         /\ << r.csb, r.sc, r.sbc >> =
              << _customStorageBoxes, ServerCache, StorageBoxCache >>
  /\ \A c \in Clients : \A k \in KeyInputs("storageBox") :
       LET r == unregisterStorageBox(c, << k >>) IN
       ~r.thrown =>
         /\ Held(c, "storageBox", k)
         /\ r.csb = [_customStorageBoxes EXCEPT ![c] = MapDelete(@, ToPropertyKey(k))]
         /\ << r.cs, r.sc, r.sbc >> = << _customServers, ServerCache, StorageBoxCache >>
  /\ \A kind \in Kinds :
       (last.op = "client" /\ last.m = UnregisterName(kind) /\ ~last.thrown) =>
         /\ ~Held(last.c, kind, last.key)
         /\ Lookup(last.c, kind, last.key).ret = 0
         /\ ~Lookup(last.c, kind, last.key).thrown
         /\ ~RegisterOp(last.c, kind, << last.key >>).thrown

\* an unregister has just succeeded and another entry of the same registry
\* is still there
C7_Witness ==
  /\ last.op = "client"
  /\ last.m = "unregisterServer"
  /\ ~last.thrown
  /\ ~Held(last.c, "server", last.key)
  /\ DOMAIN _customServers[last.c] # {}

(***************************************************************************)
(* C8: a successful register returns a handle bound to the registering     *)
(* client and to the key, the registry holds the key afterwards, and a     *)
(* lookup made right after finds a handle bound to the same client and key.*)
(* (In the proxy implementation the key is the name the handle is looked   *)
(* up by, and the handle injects the value registered under that name.)    *)
(***************************************************************************)
BoundTo(h, c, kind, k) ==
  /\ h.client = c
  /\ h.kind = kind
  /\ IF impl = "proxy" THEN h.name = ToPropertyKey(k) /\ Intact(h)
     ELSE h.key = k

MissingKey(kind) ==
  IF kind = "server" THEN "Missing IP address" ELSE "Missing storageBox ID"

C9_AsStated ==
  \A c \in Clients : \A kind \in Kinds : \A k \in {Undefined, Empty} :
    \A v \in ValueInputs(kind) :
      LET r == RegisterOp(c, kind, << k, v >>) IN
      /\ r.thrown
      /\ r.error.msg = MissingKey(kind)
      /\ RegistriesOf(r) = Registries

(***************************************************************************)
(* C10 (as stated): a register or unregister under one kind changes no     *)
(* entry of the other kind, and server key "1234" and storage-box key 1234 *)
(* can both be registered on one client (each succeeds when not yet held). *)
(***************************************************************************)
AllKeys == KeyInputs("server") \cup KeyInputs("storageBox")

KindFrame ==
  \A c \in Clients : \A k \in AllKeys : \A v \in {Undefined, Ip1, Id1234} :
    /\ << registerServer(c, << k, v >>).csb, registerServer(c, << k, v >>).sbc >> =
         << _customStorageBoxes, StorageBoxCache >>
    /\ << unregisterServer(c, << k >>).csb, unregisterServer(c, << k >>).sbc >> =
         << _customStorageBoxes, StorageBoxCache >>
    /\ << registerStorageBox(c, << k, v >>).cs, registerStorageBox(c, << k, v >>).sc >> =
         << _customServers, ServerCache >>
    /\ << unregisterStorageBox(c, << k >>).cs, unregisterStorageBox(c, << k >>).sc >> =
         << _customServers, ServerCache >>

C10_AsStated ==
  /\ KindFrame
  /\ \A c \in Clients : \A v \in {Undefined, Ip1, Id1234} :
       /\ ~Held(c, "server", Key1234) => ~registerServer(c, << Key1234, v >>).thrown
       /\ ~Held(c, "storageBox", Id1234) => ~registerStorageBox(c, << Id1234, v >>).thrown

(***************************************************************************)
(* C10 (amended): a register or unregister under one kind changes no entry *)
(* of the other kind; storage-box key 1234 can be registered whether or    *)
(* not server key "1234" is, and in the proxy implementation so can server *)
(* key "1234"; the class implementation rejects server key "1234" with     *)
(* 'Missing IP address', as it does every string shorter than 7            *)
(* characters.                                                             *)
(***************************************************************************)
C10_KindIsolation ==
  /\ KindFrame
  /\ \A c \in Clients : \A v \in {Undefined, Ip1, Id1234} :
       /\ ~Held(c, "storageBox", Id1234) => ~registerStorageBox(c, << Id1234, v >>).thrown
       /\ (impl = "proxy" /\ ~Held(c, "server", Key1234)) =>
            ~registerServer(c, << Key1234, v >>).thrown
       /\ impl = "class" =>
            registerServer(c, << Key1234, v >>) = Throw(Error("Missing IP address", << >>))

\* server key "1234" and storage-box key 1234 are both registered on one
\* client, the second registration has just succeeded, and the two handles
\* are different objects of different kinds
C10_Witness ==
  /\ last.op = "client"
  /\ last.m = "registerStorageBox"
  /\ ~last.thrown
  /\ last.key = Id1234
  /\ Held(last.c, "server", Key1234)
  /\ Held(last.c, "storageBox", Id1234)
  /\ \E h \in Handles :
       /\ h # last.ret
       /\ heap[h].kind = "server"
       /\ heap[h].name = StringOf(Key1234)
       /\ heap[last.ret].kind = "storageBox"

(***************************************************************************)
(* Two clients.  Both are constructed from the same module and register    *)
(* the same keys; every operation is the one defined above, applied to the *)
(* client that is called.                                                  *)
(***************************************************************************)
TwoClients == {"A", "B"}

\* the same key on either client; the proxy's second argument varies
SharedRegisterArgs(kind) ==
  IF kind = "server" THEN {<< Ip1, Ip1 >>, << Ip1, Key1234 >>}
  ELSE {<< Id1234, Id1234 >>}
SharedKey(kind) == IF kind = "server" THEN Ip1 ELSE Id1234

RegisterOn ==
  \E c \in TwoClients, kind \in Kinds :
    \E args \in SharedRegisterArgs(kind) :
      Apply(RegisterOp(c, kind, args), "client", c, 0, RegisterName(kind), args)

UnregisterOn ==
  \E c \in TwoClients, kind \in Kinds :
    Apply(UnregisterOp(c, kind, << SharedKey(kind) >>), "client", c, 0,
          UnregisterName(kind), << SharedKey(kind) >>)

LookupOn ==
  \E c \in TwoClients, kind \in Kinds :
    Apply(Lookup(c, kind, SharedKey(kind)), "lookup", c, 0, kind, << SharedKey(kind) >>)

HandleCallOn ==
  \E h \in 1..Len(heap), m \in {"queryServer", "queryStorageBoxes"} :
    Apply(HandleInvoke(heap[h], m, << >>), "handle", heap[h].client, h, m, << >>)

InitClients ==
  /\ NoTraffic
  /\ impl \in Impls
  /\ _customServers = [c \in TwoClients |-> EmptyMap]
  /\ _customStorageBoxes = [c \in TwoClients |-> EmptyMap]
  /\ ServerCache = EmptyMap
  /\ StorageBoxCache = EmptyMap
  /\ heap = << >>
  /\ last = [op |-> "init", c |-> "A", h |-> 0, m |-> "", key |-> Undefined,
             thrown |-> FALSE, error |-> NoError, ret |-> 0, req |-> << >>]

NextClients ==
  \/ RegisterOn
  \/ UnregisterOn
  \/ LookupOn
  \/ HandleCallOn

SpecClients == InitClients /\ [][NextClients]_vars

\* the part of the registries that belongs to client c
RegistryOf(c) ==
  << _customServers[c], _customStorageBoxes[c],
     IF c \in DOMAIN ServerCache THEN ServerCache[c] ELSE EmptyMap,
     IF c \in DOMAIN StorageBoxCache THEN StorageBoxCache[c] ELSE EmptyMap >>

\* the same, in the state an outcome r leaves behind
RegistryOfIn(r, c) ==
  << r.cs[c], r.csb[c],
     IF c \in DOMAIN r.sc THEN r.sc[c] ELSE EmptyMap,
     IF c \in DOMAIN r.sbc THEN r.sbc[c] ELSE EmptyMap >>

\* what the caller gets back from a lookup or a register: the error, or
\* whether a handle came back and what the handle is
Returned(r) ==
  [thrown |-> r.thrown, error |-> r.error,
   handle |-> IF r.ret \in 1..Len(r.heap) THEN << r.heap[r.ret] >> ELSE << >>]

\* what lookups and registers on client c return in the current state
Answers(c) ==
  [kind \in Kinds |->
     << Returned(Resolve(c, kind, SharedKey(kind))),
        Returned(RegisterOp(c, kind, << SharedKey(kind), SharedKey(kind) >>)) >>]

C11_Frame ==
  \A c \in TwoClients : \A d \in TwoClients \ {c} : \A kind \in Kinds :
    /\ \A args \in SharedRegisterArgs(kind) :
         RegistryOfIn(RegisterOp(c, kind, args), d) = RegistryOf(d)
    /\ RegistryOfIn(UnregisterOp(c, kind, << SharedKey(kind) >>), d) = RegistryOf(d)

C11_HandleForwardsToOwner ==
  \A h \in Handles : \A m \in Endpoints(impl) \cup RegistryNames :
    LET r == HandleInvoke(heap[h], m, << >>) IN
    /\ \A i \in 1..Len(r.req) : r.req[i].client = heap[h].client
    /\ \A d \in TwoClients \ {heap[h].client} : RegistryOfIn(r, d) = RegistryOf(d)
    /\ r.ret \in 1..Len(r.heap) => r.heap[r.ret].client = heap[h].client

\* a register or unregister on one client leaves the answers of the other as they were
C11_Step ==
  \A c \in TwoClients :
    (last'.op = "client" /\ last'.c = c /\ last'.m \in RegistryNames) =>
      \A d \in TwoClients \ {c} : Answers(d)' = Answers(d)

(***************************************************************************)
(* C11: registries are per client: a register or unregister on one client  *)
(* changes neither the registry of another client nor what a lookup or a   *)
(* register on the other client returns, and a handle forwards only to the *)
(* client it was obtained from (its requests go out through that client    *)
(* and nothing it does touches the registry of another), also when both    *)
(* clients hold the same key.                                              *)
(***************************************************************************)
C11_RegistriesPerClient ==
  /\ [](C11_Frame /\ C11_HandleForwardsToOwner)
  /\ [][C11_Step]_vars

\* both clients hold the same server key, and the handle obtained from B has
\* just issued its request through B
C11_Witness ==
  /\ Held("A", "server", Ip1)
  /\ Held("B", "server", Ip1)
  /\ last.op = "handle"
  /\ last.c = "B"
  /\ last.m = "queryServer"
  /\ Len(last.req) = 1
  /\ last.req[1].client = "B"
  /\ \E h \in Handles : heap[h].client = "A"

Forwarded(h) ==
  IF impl = "proxy" THEN ProxyOwnProperties
  ELSE PrototypeMethods(h.kind) \ {"registerServer", "registerStorageBox"}

Obj(names) == [t |-> "object", s |-> names, n |-> 0]
EmptyArray == [t |-> "array", s |-> << >>, n |-> 0]

\* o.hasOwnProperty(name)
HasOwnProperty(o, name) == \E i \in 1..Len(o.s) : o.s[i] = name

\* o[name]
Prop(o, name) == IF HasOwnProperty(o, name) THEN Str(<< name >>) ELSE Undefined

\* reading or writing a property of undefined
PropertyOfUndefined(name) ==
  Throw(Error("TypeError: Cannot read property '%s' of undefined", << name >>))

\* using an identifier no scope binds
ReferenceError(name) == Throw(Error("ReferenceError: %s is not defined", << name >>))

queryIp(c, args) ==
  LET ipAddress == Arg(args, 1) IN
  IF IsUndefined(ipAddress) THEN Throw(Error("Server IP is missing.", << >>))
  ELSE IF impl = "proxy"
  THEN _createRequest(c, "get", "/ip", << StringOf(ipAddress) >>, << >>)
  \* class: return this._createResponse('get', '/ip/' + ipAddress)
  ELSE TypeError(<< "_createResponse" >>)

enableLinuxBoot(c, args) ==
  LET ipAddress == Arg(args, 1)
      options == Arg(args, 2) IN
  IF IsUndefined(ipAddress) THEN Throw(Error("Server IP is missing.", << >>))
  ELSE IF IsUndefined(options) THEN PropertyOfUndefined("hasOwnProperty")
  ELSE IF ~HasOwnProperty(options, "distribution")
  THEN Throw(Error("Installation distribution is missing.", << >>))
  ELSE _createRequest(c, "post", "/boot", << StringOf(ipAddress), << "l", "i", "n", "u", "x" >> >>,
         << << "dist", Prop(options, "distribution") >>,
            << "arch", OrElse(Prop(options, "architecture"), Num(64)) >>,
            << "lang", OrElse(Prop(options, "language"), Str(<< "e", "n" >>)) >>,
            << "authorized_key", OrElse(Prop(options, "keys"), EmptyArray) >> >>)

querySSHKeys(c, args) ==
  LET fingerprint == Arg(args, 1) IN
  _createRequest(c, "get", "/key",
                 IF IsUndefined(fingerprint) THEN << >> ELSE << StringOf(fingerprint) >>,
                 << >>)

\* proxy: return this.keys(fingerprint); class: return this.querySSHKeys(fingerprint)
querySSHKey(c, args) ==
  IF impl = "proxy" THEN TypeError(<< "keys" >>)
  ELSE querySSHKeys(c, << Arg(args, 1) >>)

\* "TODO: Finish method": the options are not read
queryStatistics(c, args) == _createRequest(c, "post", "/traffic", << >>, << >>)

\* queryDailyStatistics / queryMonthlyStatistics / queryYearlyStatistics:
\*   options.type = ...; return this.get(options)          (proxy)
\*   options.type = ...; return queryStatistics(options)   (class)
StatisticsWrapper(c, args) ==
  LET options == Arg(args, 1) IN
  IF IsUndefined(options) THEN PropertyOfUndefined("type")
  ELSE IF impl = "proxy" THEN TypeError(<< "get" >>)
  ELSE ReferenceError(<< "queryStatistics" >>)

StatisticsWrappers ==
  {"queryDailyStatistics", "queryMonthlyStatistics", "queryYearlyStatistics"}

\* the operations called in the network model, by the name each implementation
\* gives them
OperationNames(i) ==
  Endpoints(i) \cup StatisticsWrappers \cup
    {"queryIp", "enableLinuxBoot", "querySSHKeys", "querySSHKey", "queryStatistics"}

\* robot[m](...args) for an operation m of the table
Operation(c, m, args) ==
  CASE m = "queryIp" -> queryIp(c, args)
    [] m = "enableLinuxBoot" -> enableLinuxBoot(c, args)
    [] m = "querySSHKeys" -> querySSHKeys(c, args)
    [] m = "querySSHKey" -> querySSHKey(c, args)
    [] m = "queryStatistics" -> queryStatistics(c, args)
    [] m \in StatisticsWrappers -> StatisticsWrapper(c, args)
    [] OTHER -> Endpoint(c, m, args)

\* the parameters the documentation block of an operation declares, in
\* order, and which of them it declares required (no brackets)
Parameters(m) ==
  CASE m \in {"queryServers"} -> << >>
    [] m \in {"queryServer", "queryIp"} -> << "ipAddress" >>
    [] m \in {"setServerName", "updateServerName"} -> << "ipAddress", "newName" >>
    [] m = "resetServer" -> << "ipAddress", "resetType" >>
    [] m \in {"queryStorageBoxes", "queryStorageBox"} -> << "storageBoxId" >>
    [] m = "updateStorageBoxName" -> << "storageBoxId", "newName" >>
    [] m = "enableLinuxBoot" -> << "ipAddress", "options" >>
    [] m \in {"querySSHKeys", "querySSHKey"} -> << "fingerprint" >>
    [] OTHER -> << "options" >>

Required(m) ==
  CASE m \in {"queryServers", "queryStorageBoxes", "querySSHKeys"} -> {}
    [] m = "resetServer" -> {1}
    [] OTHER -> 1..Len(Parameters(m))

\* a value of the kind each parameter takes
Sample(name) ==
  CASE name = "ipAddress" -> Ip1
    [] name \in {"storageBoxId"} -> Id1234
    [] name = "options" -> Obj(<< "distribution" >>)
    [] name = "fingerprint" -> Str(<< "f" >>)
    [] name = "resetType" -> Str(<< "h", "w" >>)
    [] OTHER -> NewName

\* every parameter given
FullArgs(m) == [i \in 1..Len(Parameters(m)) |-> Sample(Parameters(m)[i])]

\* parameter i left undefined, the others given
ArgsWithout(m, i) == [FullArgs(m) EXCEPT ![i] = Undefined]

\* the argument vectors callers pass to m in the network model
OperationArgs(m) ==
  {FullArgs(m)} \cup {ArgsWithout(m, i) : i \in 1..Len(Parameters(m))}
    \cup (IF m = "enableLinuxBoot" THEN {<< Ip1, Obj(<< >>) >>} ELSE {})

(***************************************************************************)
(* The network side.  An operation that does not throw hands one request   *)
(* to the REST client and returns a promise.  The REST client later calls  *)
(* the response callback (_parseResponse), or emits 'error' on the request *)
(* object, or emits a timeout event; the promise is settled only by what   *)
(* the module's own callbacks do.                                          *)
(***************************************************************************)
MaxRequests == 1

Statuses == {200, 201, 404}

\* parsed response bodies: data without an error member, the error envelope
\* {error: {code, message}}, an error member without code and message, and a
\* body that is no object with an error member (empty, text, null)
Bodies == {"data", "envelope", "partial", "raw"}

NoValue == [k |-> "none", body |-> "", text |-> << >>]
Pending == [state |-> "pending", value |-> NoValue]
Resolved(v) == [state |-> "resolved", value |-> v]
Rejected(v) == [state |-> "rejected", value |-> v]

\* response.error.code + ': ' + response.error.message
EnvelopeText(body) ==
  IF body = "envelope" THEN << "CODE", ": ", "message" >>
  ELSE << "undefined", ": ", "undefined" >>

\* (text).red of the colors module: the text between the escape sequences
\* for red and for the default colour
red(text) == << "ESC[31m" >> \o text \o << "ESC[39m" >>

\* whether  response.error.code  can be read
HasError(body) == body \in {"envelope", "partial"}

\* proxy: _parseResponse(response, rawData, resolve, reject).  The result is
\* the promise's new state and the error thrown out of the callback, if any.
ProxyParseResponse(statusCode, body) ==
  IF ~(statusCode = 200 \/ statusCode = 201)
  THEN IF HasError(body)
       THEN [promise |-> Rejected([k |-> "text", body |-> "", text |-> red(EnvelopeText(body))]),
             thrown |-> << >>]
       ELSE [promise |-> Pending,
             thrown |-> << Error("TypeError: Cannot read property '%s' of undefined",
                                 << "code" >>) >>]
  \* resolve(JSON.stringify(response, null, 2))
  ELSE [promise |-> Resolved([k |-> "json", body |-> body, text |-> << >>]),
        thrown |-> << >>]

\* class: _parseResponse(response, statusCode, resolve, reject)
ClassParseResponse(statusCode, body) ==
  IF ~(statusCode = 200 \/ statusCode = 201)
  THEN IF HasError(body)
       THEN [promise |-> Rejected([k |-> "text", body |-> "", text |-> red(EnvelopeText(body))]),
             thrown |-> << >>]
       \* catch (unexpectedResponseError) { return reject(response) }
       ELSE [promise |-> Rejected([k |-> "body", body |-> body, text |-> << >>]),
             thrown |-> << >>]
  ELSE [promise |-> Resolved([k |-> "body", body |-> body, text |-> << >>]),
        thrown |-> << >>]

_parseResponse(statusCode, body) ==
  IF impl = "proxy" THEN ProxyParseResponse(statusCode, body)
  ELSE ClassParseResponse(statusCode, body)

\* the 'error' event of the request object: the class module registers
\* .on('error', (error) => reject(error)), index.js registers nothing
OnError ==
  IF impl = "class"
  THEN Rejected([k |-> "error", body |-> "", text |-> << "socket hang up" >>])
  ELSE Pending

\* a config object: whether username / password are absent, empty or set
Config(username, password) ==
  Obj((CASE username = "absent" -> << >>
         [] username = "empty" -> << "username", "username.length === 0" >>
         [] OTHER -> << "username" >>)
      \o (CASE password = "absent" -> << >>
            [] password = "empty" -> << "password", "password.length === 0" >>
            [] OTHER -> << "password" >>))

Configs ==
  {Undefined} \cup
    {Config(u, p) : u \in {"absent", "empty", "set"}, p \in {"absent", "empty", "set"}}

\* what  new Robot(config)  gives: an error thrown, or an instance
Instance == [thrown |-> FALSE, error |-> NoError]
NoInstance(msg) == [thrown |-> TRUE, error |-> Error(msg, << >>)]

\* proxy: the constructor function Robot(config)
ProxyConstructor(config) ==
  IF IsUndefined(config) THEN NoInstance("Missing configuration data")
  ELSE Instance

\* class: constructor (config)
ClassConstructor(config) ==
  IF IsUndefined(config) THEN NoInstance("Missing configuration data")
  ELSE IF ~HasOwnProperty(config, "username")
          \/ HasOwnProperty(config, "username.length === 0")
  THEN NoInstance("Missing API username")
  ELSE IF ~HasOwnProperty(config, "password")
          \/ HasOwnProperty(config, "password.length === 0")
  THEN NoInstance("Missing API password")
  ELSE Instance

\* new Robot(config)
constructor(config) ==
  IF impl = "proxy" THEN ProxyConstructor(config) ELSE ClassConstructor(config)

\* the caller constructs a client
Construct ==
  \E config \in Configs :
    LET r == constructor(config) IN
    /\ last' = [op |-> "new", c |-> "A", h |-> 0, m |-> "Robot", key |-> config,
                thrown |-> r.thrown, error |-> r.error, ret |-> 0, req |-> << >>]
    /\ UNCHANGED << impl, _customServers, _customStorageBoxes, ServerCache,
                    StorageBoxCache, heap, ioVars >>

\* the operations called in the network model
CalledNames ==
  {"queryServer", "updateStorageBoxName", "enableLinuxBoot", "queryIp",
   "querySSHKey", "queryDailyStatistics"}

\* a request handed to the REST client; statusCode and body are those of the
\* response once it has arrived
Sent(req) == [req |-> req, state |-> "sent", statusCode |-> 0, body |-> ""]

\* the caller invokes an operation on the client
Call ==
  \E m \in CalledNames \cap OperationNames(impl) :
    \E args \in OperationArgs(m) :
      LET r == Operation("A", m, args) IN
      /\ Len(wire) + Len(r.req) <= MaxRequests
      /\ wire' = wire \o [i \in 1..Len(r.req) |-> Sent(r.req[i])]
      /\ promises' = promises \o [i \in 1..Len(r.req) |-> Pending]
      /\ last' = [op |-> "call", c |-> "A", h |-> 0, m |-> m, key |-> Arg(args, 1),
                  thrown |-> r.thrown, error |-> r.error, ret |-> 0, req |-> r.req]
      /\ UNCHANGED << impl, _customServers, _customStorageBoxes, ServerCache,
                      StorageBoxCache, heap, uncaught, clientsDatabase >>

\* the response to request i arrives: the REST client calls the callback
Respond ==
  \E i \in 1..Len(wire), statusCode \in Statuses, body \in Bodies :
    LET p == _parseResponse(statusCode, body) IN
    /\ wire[i].state = "sent"
    /\ wire' = [wire EXCEPT ![i] = [@ EXCEPT !.state = "answered",
                                           !.statusCode = statusCode,
                                           !.body = body]]
    /\ promises' = [promises EXCEPT ![i] = p.promise]
    /\ uncaught' = uncaught \o p.thrown
    /\ UNCHANGED << impl, _customServers, _customStorageBoxes, ServerCache,
                    StorageBoxCache, heap, last, clientsDatabase >>

\* the connection of request i fails: the request object emits 'error'
Fail ==
  \E i \in 1..Len(wire) :
    /\ wire[i].state = "sent"
    /\ wire' = [wire EXCEPT ![i].state = "failed"]
    /\ promises' = [promises EXCEPT ![i] = OnError]
    /\ UNCHANGED << impl, _customServers, _customStorageBoxes, ServerCache,
                    StorageBoxCache, heap, last, uncaught, clientsDatabase >>

\* no response to request i within requestConfig.timeout: the request object
\* emits 'requestTimeout', for which neither module registers a listener
Expire ==
  \E i \in 1..Len(wire) :
    /\ wire[i].state = "sent"
    /\ wire' = [wire EXCEPT ![i].state = "expired"]
    /\ UNCHANGED << impl, _customServers, _customStorageBoxes, ServerCache,
                    StorageBoxCache, heap, last, promises, uncaught, clientsDatabase >>

InitIO ==
  /\ NoTraffic
  /\ impl \in Impls
  /\ _customServers = [c \in Clients |-> EmptyMap]
  /\ _customStorageBoxes = [c \in Clients |-> EmptyMap]
  /\ ServerCache = EmptyMap
  /\ StorageBoxCache = EmptyMap
  /\ heap = << >>
  /\ last = [op |-> "init", c |-> "A", h |-> 0, m |-> "", key |-> Undefined,
             thrown |-> FALSE, error |-> NoError, ret |-> 0, req |-> << >>]

NextIO ==
  \/ Construct
  \/ Call
  \/ Respond
  \/ Fail
  \/ Expire

SpecIO == InitIO /\ [][NextIO]_vars

\* the messages of the errors the operations raise for a missing parameter
MissingParameterMessages ==
  {"Server IP is missing.", "New server name is missing.", "StorageBox ID is missing.",
   "New storageBox name is missing.", "Installation distribution is missing."}

(***************************************************************************)
(* C13 (as stated): for every operation and every parameter it declares    *)
(* required, a call that leaves the parameter undefined (the others given) *)
(* throws one of the missing-parameter errors at call time and hands no    *)
(* request to the REST client.                                             *)
(***************************************************************************)
C13_AsStated ==
  \A m \in OperationNames(impl) : \A i \in Required(m) :
    LET r == Operation("A", m, ArgsWithout(m, i)) IN
    /\ r.thrown
    /\ r.error.msg \in MissingParameterMessages
    /\ r.req = << >>

\* the error the constructor is to raise for a config, "" for none
ExpectedConfigError(config) ==
  IF IsUndefined(config) THEN "Missing configuration data"
  ELSE IF ~HasOwnProperty(config, "username")
          \/ HasOwnProperty(config, "username.length === 0")
  THEN "Missing API username"
  ELSE IF ~HasOwnProperty(config, "password")
          \/ HasOwnProperty(config, "password.length === 0")
  THEN "Missing API password"
  ELSE ""

(***************************************************************************)
(* C14 (as stated): constructing a client without a config, or with a      *)
(* config whose username (then password) is absent or empty, throws        *)
(* 'Missing configuration data', 'Missing API username' or 'Missing API    *)
(* password' and produces no instance; with both credentials it produces   *)
(* an instance.                                                            *)
(***************************************************************************)
C14_AsStated ==
  (last.op = "new") =>
    /\ last.error.msg = ExpectedConfigError(last.key)
    /\ last.thrown = (ExpectedConfigError(last.key) # "")

(***************************************************************************)
(* The network side with fairness: for every request handed to the REST    *)
(* client the exchange comes to an end (a response, an 'error' event or a  *)
(* timeout event).  Nothing is assumed about the caller.                   *)
(***************************************************************************)
SpecIOFair == SpecIO /\ WF_vars(Respond \/ Fail \/ Expire)

(***************************************************************************)
(* C15 (as stated): every promise an operation returns is eventually       *)
(* settled (resolved or rejected), whatever the status and the body of the *)
(* response, and also after an 'error' event or a timeout.                 *)
(***************************************************************************)
C15_AsStated ==
  \A i \in 1..MaxRequests :
    [](i <= Len(promises) => <>(i <= Len(promises) /\ promises[i].state # "pending"))

(***************************************************************************)
(* C16 (as stated): the promise of a request is resolved with the parsed   *)
(* body exactly when the response has status 200 or 201; it is rejected    *)
(* for every other status and when the request emits 'error'.              *)
(***************************************************************************)
C16_AsStated ==
  \A i \in 1..Len(wire) :
    /\ (wire[i].state = "answered" /\ wire[i].statusCode \in {200, 201})
         => promises[i] = Resolved([k |-> "body", body |-> wire[i].body, text |-> << >>])
    /\ (wire[i].state = "answered" /\ wire[i].statusCode \notin {200, 201})
         => promises[i].state = "rejected"
    /\ wire[i].state = "failed" => promises[i].state = "rejected"
    /\ promises[i].state = "resolved"
         => (wire[i].state = "answered" /\ wire[i].statusCode \in {200, 201})

(***************************************************************************)
(* C17 (as stated): every operation of the client, called with all of its  *)
(* declared parameters, throws nothing at call time, hands its request to  *)
(* the REST client and returns the promise of that request; queryIp,       *)
(* querySSHKey and the daily / monthly / yearly statistics wrappers        *)
(* included.                                                               *)
(***************************************************************************)
C17_AsStated ==
  \A m \in OperationNames(impl) :
    LET r == Operation("A", m, FullArgs(m)) IN
    /\ ~r.thrown
    /\ Len(r.req) = 1

\* the step is a call of an operation, as the caller sees it
CallStep == last' # last /\ last'.op = "call"

\* the call recorded in r was not refused for a missing parameter
PassedValidation(r) == ~(r.thrown /\ r.error.msg \in MissingParameterMessages)

(***************************************************************************)
(* C18 (as stated): a call of an operation that passes validation hands    *)
(* exactly one request to the REST client, and no other step (a response,  *)
(* an 'error' event, a timeout) hands it any: nothing is sent again.       *)
(***************************************************************************)
C18_AsStated ==
  [][/\ (CallStep /\ PassedValidation(last')) => Len(wire') = Len(wire) + 1
     /\ ~CallStep => Len(wire') = Len(wire)]_vars

(***************************************************************************)
(* The client against the mock server of the tests.  The caller issues     *)
(* name updates and queries; the mock server handles each request against  *)
(* clientsDatabase and sends its response; the REST client then calls the  *)
(* response callback of the request.  Requests are handled and responses   *)
(* delivered in any order.                                                 *)
(***************************************************************************)
MaxExchanges == 3

\* the keys of the first server and the first storage box of clientsDatabase
MockServerIp ==
  Str(<< "1", "2", "3", ".", "1", "2", "3", ".", "1", "2", "3", ".", "1", "2", "3" >>)
MockStorageBoxId == 123456

\* parseInt(s): the number written by the leading digits of s, -1 for NaN
RECURSIVE parseInt(_)
parseInt(s) ==
  LET IsDigit(ch) == \E d \in 0..9 : DigitChar(d) = ch
      Value(ch) == CHOOSE d \in 0..9 : DigitChar(d) = ch IN
  IF s = << >> \/ ~IsDigit(s[1]) THEN -1
  ELSE IF Len(s) = 1 \/ ~IsDigit(s[2]) THEN Value(s[1])
  ELSE IF ~IsDigit(s[Len(s)]) THEN parseInt(SubSeq(s, 1, Len(s) - 1))
  ELSE parseInt(SubSeq(s, 1, Len(s) - 1)) * 10 + Value(s[Len(s)])

\* a request on its way, with the record of its exchange: after = the
\* requests whose promises were resolved when this one was issued, at = its
\* place in the order the mock server handled the requests (0: not yet),
\* name = the name member of the record in the response body
Issued(req, after) ==
  [req |-> req, state |-> "sent", statusCode |-> 0, body |-> "",
   name |-> Undefined, after |-> after, at |-> 0]

\* the route handlers of the mock server for /server/:ipAddress and
\* /storagebox/:id.  decoded: whether the body parser found the posted
\* members in req.params.  The result is the response and the database.
MockRoute_NoWrite(req, decoded, db) ==
  LET kind == IF req.base = "/server" THEN "server" ELSE "storageBox"
      found == /\ Len(req.arg) = 1
               /\ IF kind = "server" THEN req.arg[1] = MockServerIp.s
                  ELSE parseInt(req.arg[1]) = MockStorageBoxId
      posted == IF decoded /\ Len(req.data) = 1 THEN req.data[1][2] ELSE Undefined
      Send(statusCode, body, name, d) ==
        [statusCode |-> statusCode, body |-> body, name |-> name, db |-> d] IN
  IF req.verb = "post" /\ posted.t # "string"
  THEN Send(400, "envelope", Undefined, db)
  ELSE IF ~found THEN Send(404, "envelope", Undefined, db)
  ELSE Send(200, "data", db[kind], db)

MockRoute(req, decoded, db) ==
  LET kind == IF req.base = "/server" THEN "server" ELSE "storageBox"
      \* util.getServerByIp / util.getStorageBoxById
      found == /\ Len(req.arg) = 1
               /\ IF kind = "server" THEN req.arg[1] = MockServerIp.s
                  ELSE parseInt(req.arg[1]) = MockStorageBoxId
      \* req.params.server_name / req.params.storagebox_name
      posted == IF decoded /\ Len(req.data) = 1 THEN req.data[1][2] ELSE Undefined
      Send(statusCode, body, name, d) ==
        [statusCode |-> statusCode, body |-> body, name |-> name, db |-> d] IN
  IF req.verb = "post" /\ posted.t # "string"
  THEN Send(400, "envelope", Undefined, db)
  ELSE IF ~found THEN Send(404, "envelope", Undefined, db)
  ELSE IF req.verb = "post"
  \* data.server.server_name = ... / data.storagebox.name = ...
  THEN Send(200, "data", posted, [db EXCEPT ![kind] = posted])
  ELSE Send(200, "data", db[kind], db)

\* mutant: a call waits until no earlier promise is pending
MockCall_Serialized ==
  /\ \A i \in 1..Len(promises) : promises[i].state # "pending"
  /\ wire' = Append(wire, Issued(queryServers("A", << >>).req[1], {}))
  /\ promises' = Append(promises, Pending)
  /\ Len(wire) < MaxExchanges
  /\ UNCHANGED << impl, _customServers, _customStorageBoxes, ServerCache,
                  StorageBoxCache, heap, last, uncaught, clientsDatabase >>

\* the caller updates a name or queries one record, under the name each
\* implementation gives the operation
MockCall ==
  \E kind \in Kinds, query \in BOOLEAN, known \in BOOLEAN,
     newName \in {NewName, Str(<< "m" >>)} :
    LET key == IF kind = "server" THEN (IF known THEN MockServerIp ELSE Ip1)
               ELSE (IF known THEN Num(MockStorageBoxId) ELSE Id1234)
        m == CASE kind = "server" /\ query -> "queryServer"
               [] kind = "server" /\ impl = "proxy" -> "setServerName"
               [] kind = "server" -> "updateServerName"
               [] query /\ impl = "proxy" -> "queryStorageBoxes"
               [] query -> "queryStorageBox"
               [] OTHER -> "updateStorageBoxName"
        r == Operation("A", m, IF query THEN << key >> ELSE << key, newName >>)
        after == {i \in 1..Len(promises) : promises[i].state = "resolved"} IN
    /\ query => newName = NewName
    /\ ~query => known
    /\ ~r.thrown
    /\ Len(wire) + Len(r.req) <= MaxExchanges
    /\ wire' = wire \o [i \in 1..Len(r.req) |-> Issued(r.req[i], after)]
    /\ promises' = promises \o [i \in 1..Len(r.req) |-> Pending]
    /\ UNCHANGED << impl, _customServers, _customStorageBoxes, ServerCache,
                    StorageBoxCache, heap, last, uncaught, clientsDatabase >>

\* the mock server handles request i and sends its response
MockServe ==
  \E i \in 1..Len(wire), decoded \in BOOLEAN :
    LET r == MockRoute(wire[i].req, decoded, clientsDatabase) IN
    /\ wire[i].state = "sent"
    /\ wire' = [wire EXCEPT ![i] =
                  [@ EXCEPT !.state = "served", !.statusCode = r.statusCode,
                            !.body = r.body, !.name = r.name,
                            !.at = 1 + Cardinality({j \in 1..Len(wire) : wire[j].at > 0})]]
    /\ clientsDatabase' = r.db
    /\ UNCHANGED << impl, _customServers, _customStorageBoxes, ServerCache,
                    StorageBoxCache, heap, last, promises, uncaught >>

\* the response to request i arrives: the REST client calls the callback
MockDeliver ==
  \E i \in 1..Len(wire) :
    LET p == _parseResponse(wire[i].statusCode, wire[i].body) IN
    /\ wire[i].state = "served"
    /\ wire' = [wire EXCEPT ![i].state = "answered"]
    /\ promises' = [promises EXCEPT ![i] = p.promise]
    /\ uncaught' = uncaught \o p.thrown
    /\ UNCHANGED << impl, _customServers, _customStorageBoxes, ServerCache,
                    StorageBoxCache, heap, last, clientsDatabase >>

NextMock ==
  \/ MockCall
  \/ MockServe
  \/ MockDeliver

SpecMock == InitIO /\ [][NextMock]_vars

\* request i changes a name / reads one record
IsUpdate(i) == wire[i].req.verb = "post"
IsQuery(i) == wire[i].req.verb = "get"

\* requests i and j address the same record of the same collection
SameRecord(i, j) ==
  wire[i].req.base = wire[j].req.base /\ wire[i].req.arg = wire[j].req.arg

\* the mock server handled an update of q's record after update u and
\* before query q
UpdateBetween(u, q) ==
  \E w \in 1..Len(wire) :
    /\ w # u /\ IsUpdate(w) /\ SameRecord(w, q)
    /\ wire[w].at > wire[u].at
    /\ wire[q].at = 0 \/ wire[w].at < wire[q].at

\* query q was issued after the promise of update u of the same record had
\* been resolved, and no other update of the record was handled in between
ReadsAfter(u, q) ==
  /\ IsUpdate(u) /\ IsQuery(q) /\ SameRecord(u, q)
  /\ u \in wire[q].after
  /\ ~UpdateBetween(u, q)

C20_AsStated ==
  \A i \in 1..Len(wire) :
    (wire[i].state = "answered" /\ wire[i].statusCode \notin {200, 201})
      => /\ promises[i].state = "rejected"
         /\ wire[i].body = "envelope"
              => /\ promises[i].value.k = "text"
                 /\ promises[i].value.text
                      \in {EnvelopeText("envelope"), red(EnvelopeText("envelope"))}
         /\ ~HasError(wire[i].body)
              => /\ promises[i].value.k = "body"
                 /\ promises[i].value.body = wire[i].body
         /\ uncaught = << >>

(***************************************************************************)
(* Request bodies.  The operations that fill in defaults, map an options   *)
(* object to body members, or differ only in verb and path.                *)
(***************************************************************************)
enableRescueBoot(c, args) ==
  LET ipAddress == Arg(args, 1)
      operatingSystem == Arg(args, 2)
      architecture == OrElse(Arg(args, 3), Num(64))
      keys == OrElse(Arg(args, 4), EmptyArray) IN
  IF IsUndefined(ipAddress) THEN Throw(Error("Server IP is missing.", << >>))
  ELSE IF IsUndefined(operatingSystem) THEN Throw(Error("Operating system is missing.", << >>))
  ELSE _createRequest(c, "post", "/boot",
         << StringOf(ipAddress), << "r", "e", "s", "c", "u", "e" >> >>,
         << << "os", operatingSystem >>, << "arch", architecture >>,
            << "authorized_key", keys >> >>)

enableWindowsBoot(c, args) ==
  LET ipAddress == Arg(args, 1)
      language == Arg(args, 2) IN
  IF IsUndefined(ipAddress) THEN Throw(Error("Server IP is missing.", << >>))
  ELSE _createRequest(c, "post", "/boot",
         << StringOf(ipAddress), << "w", "i", "n", "d", "o", "w", "s" >> >>,
         << << "lang", OrElse(language, Str(<< "e", "n" >>)) >> >>)

changeTrafficWarnings(c, args) ==
  LET ipAddress == Arg(args, 1)
      trafficWarningConfig == Arg(args, 2)
      Missing(name) == ~HasOwnProperty(trafficWarningConfig, name) IN
  IF IsUndefined(ipAddress) THEN Throw(Error("Server IP is missing.", << >>))
  \* proxy: typeof trafficWarningConfiguration === 'undefined'
  ELSE IF impl = "proxy" /\ IsUndefined(trafficWarningConfig)
  THEN Throw(Error("Traffic warning configuration is missing.", << >>))
  \* class: typeof trafficWarningConfig.ration === 'undefined'
  ELSE IF impl = "class" /\ IsUndefined(trafficWarningConfig)
  THEN PropertyOfUndefined("ration")
  ELSE IF impl = "class" /\ IsUndefined(Prop(trafficWarningConfig, "ration"))
  THEN Throw(Error("Traffic warning this.config.ration is missing.", << >>))
  ELSE IF Missing("enableWarnings")
  THEN Throw(Error("Traffic warning enable switch is missing.", << >>))
  ELSE IF Missing("hourlyThreshold")
  THEN Throw(Error("Hourly traffic threshold is missing.", << >>))
  ELSE IF Missing("dailyThreshold")
  THEN Throw(Error("Daily traffic threshold is missing.", << >>))
  ELSE IF Missing("monthlyThreshold")
  THEN Throw(Error("Monthly traffic threshold is missing.", << >>))
  ELSE _createRequest(c, "post", "/ip", << StringOf(ipAddress) >>,
         << << "traffic_warnings", Prop(trafficWarningConfig, "enableWarnings") >>,
            << "traffic_hourly", Prop(trafficWarningConfig, "hourlyThreshold") >>,
            << "traffic_daily", Prop(trafficWarningConfig, "dailyThreshold") >>,
            << "traffic_monthly", Prop(trafficWarningConfig, "monthlyThreshold") >> >>)

\* the path segment 'cancellation'
Cancellation == << "c", "a", "n", "c", "e", "l", "l", "a", "t", "i", "o", "n" >>

queryCancellationStatus(c, args) ==
  LET ipAddress == Arg(args, 1) IN
  IF IsUndefined(ipAddress) THEN Throw(Error("Server IP is missing.", << >>))
  ELSE _createRequest(c, "get", "/server", << StringOf(ipAddress), Cancellation >>, << >>)

createCancellation(c, args) ==
  LET ipAddress == Arg(args, 1)
      cancellationDate == Arg(args, 2)
      cancellationReason ==
        OrElse(Arg(args, 3), [t |-> "null", s |-> << >>, n |-> 0]) IN
  IF IsUndefined(ipAddress) THEN Throw(Error("Server IP is missing.", << >>))
  ELSE IF IsUndefined(cancellationDate)
  THEN Throw(Error("Server cancellation date is missing.", << >>))
  \* proxy: config.baseUrl + 'server/' + ipAddress
  ELSE _createRequest(c, "post", "/server",
         IF impl = "proxy" THEN << StringOf(ipAddress) >>
         ELSE << StringOf(ipAddress), Cancellation >>,
         << << "cancellation_date", cancellationDate >>,
            << "cancellation_reason", cancellationReason >> >>)

removeCancellation(c, args) ==
  LET ipAddress == Arg(args, 1) IN
  IF IsUndefined(ipAddress) THEN Throw(Error("Server IP is missing.", << >>))
  \* proxy: config.baseUrl + 'server/' + ipAddress
  ELSE _createRequest(c, "delete", "/server",
         IF impl = "proxy" THEN << StringOf(ipAddress) >>
         ELSE << StringOf(ipAddress), Cancellation >>,
         << >>)

BodyNames ==
  {"resetServer", "enableRescueBoot", "enableWindowsBoot", "enableLinuxBoot",
   "changeTrafficWarnings", "queryCancellationStatus", "createCancellation",
   "removeCancellation"}

\* robot[m](...args) for these operations
BodyOperation(c, m, args) ==
  CASE m = "resetServer" -> resetServer(c, args)
    [] m = "enableRescueBoot" -> enableRescueBoot(c, args)
    [] m = "enableWindowsBoot" -> enableWindowsBoot(c, args)
    [] m = "enableLinuxBoot" -> enableLinuxBoot(c, args)
    [] m = "changeTrafficWarnings" -> changeTrafficWarnings(c, args)
    [] m = "queryCancellationStatus" -> queryCancellationStatus(c, args)
    [] m = "createCancellation" -> createCancellation(c, args)
    [] OTHER -> removeCancellation(c, args)

\* the traffic warning members, and the configs the caller passes: complete,
\* with one member left out, complete with a member named ration, none
TrafficMembers ==
  << "enableWarnings", "hourlyThreshold", "dailyThreshold", "monthlyThreshold" >>

\* the argument vectors the caller passes to m: the first argument given or
\* undefined, the others undefined, falsy ('' or 0) or set
BodyArgs(m) ==
  LET ips == {Undefined, Ip1}
      Vectors(a, b, cc, d) ==
        {<< w, x, y, z >> : w \in a, x \in b, y \in cc, z \in d}
      Pairs(a, b) == {<< w, x >> : w \in a, x \in b} IN
  CASE m = "resetServer" -> Pairs(ips, {Undefined, Empty, Str(<< "h", "w" >>)})
    [] m = "enableRescueBoot" ->
         Vectors(ips, {Undefined, Str(<< "l", "i", "n", "u", "x" >>)},
                 {Undefined, Num(0), Num(32)}, {Undefined, EmptyArray})
    [] m = "enableWindowsBoot" -> Pairs(ips, {Undefined, Empty, Str(<< "d", "e" >>)})
    [] m = "enableLinuxBoot" ->
         Pairs(ips, {Obj(<< >>), Obj(<< "distribution" >>),
                     Obj(<< "distribution", "architecture", "language" >>)})
    [] m = "changeTrafficWarnings" ->
         Pairs(ips, {Undefined, Obj(TrafficMembers), Obj(TrafficMembers \o << "ration" >>)}
                      \cup {Obj(SelectSeq(TrafficMembers, LAMBDA n : n # o)) :
                              o \in {TrafficMembers[i] : i \in 1..4}})
    [] m = "createCancellation" ->
         {<< w, x, y >> : w \in ips, x \in {Undefined, Str(<< "d" >>)},
                          y \in {Undefined, Str(<< "r" >>)}}
    [] OTHER -> {<< w >> : w \in ips}

\* the caller invokes one of these operations with one of these vectors
CallBody ==
  \E m \in BodyNames : \E args \in BodyArgs(m) :
    LET r == BodyOperation("A", m, args) IN
    /\ Len(wire) + Len(r.req) <= MaxRequests
    /\ wire' = wire \o [i \in 1..Len(r.req) |-> Sent(r.req[i])]
    /\ promises' = promises \o [i \in 1..Len(r.req) |-> Pending]
    /\ last' = [op |-> "call", c |-> "A", h |-> 0, m |-> m, key |-> Arg(args, 1),
                thrown |-> r.thrown, error |-> r.error, ret |-> 0, req |-> r.req,
                args |-> args]
    /\ UNCHANGED << impl, _customServers, _customStorageBoxes, ServerCache,
                    StorageBoxCache, heap, uncaught, clientsDatabase >>

InitBody ==
  /\ NoTraffic
  /\ impl \in Impls
  /\ _customServers = [c \in Clients |-> EmptyMap]
  /\ _customStorageBoxes = [c \in Clients |-> EmptyMap]
  /\ ServerCache = EmptyMap
  /\ StorageBoxCache = EmptyMap
  /\ heap = << >>
  /\ last = [op |-> "init", c |-> "A", h |-> 0, m |-> "", key |-> Undefined,
             thrown |-> FALSE, error |-> NoError, ret |-> 0, req |-> << >>,
             args |-> << >>]

SpecBody == InitBody /\ [][CallBody]_vars

\* the value of the member of a request body with the given name
Member(data, name) == data[CHOOSE i \in 1..Len(data) : data[i][1] = name][2]

\* the optional parameters with a documented default, for the call recorded
\* in r: the body member, the value the caller gave, the default
Defaulted(r) ==
  CASE r.m = "resetServer" -> {<< "type", Arg(r.args, 2), Str(<< "s", "w" >>) >>}
    [] r.m = "enableRescueBoot" -> {<< "arch", Arg(r.args, 3), Num(64) >>}
    [] r.m = "enableWindowsBoot" -> {<< "lang", Arg(r.args, 2), Str(<< "e", "n" >>) >>}
    [] r.m = "enableLinuxBoot" ->
         {<< "arch", Prop(Arg(r.args, 2), "architecture"), Num(64) >>,
          << "lang", Prop(Arg(r.args, 2), "language"), Str(<< "e", "n" >>) >>}
    [] OTHER -> {}

\* '' and 0: values the caller can give that  a || b  takes for none
Falsy(v) == (v.t = "string" /\ v.s = << >>) \/ (v.t = "number" /\ v.n = 0)

(***************************************************************************)
(* C21 (as stated): the body of the request carries the documented default *)
(* (type 'sw', arch 64, lang 'en') when the caller gave no value for the   *)
(* optional parameter, and the caller's value whenever the caller gave one.*)
(***************************************************************************)
C21_AsStated ==
  (last.op = "call" /\ ~last.thrown) =>
    \A d \in Defaulted(last) :
      Member(last.req[1].data, d[1]) = IF IsUndefined(d[2]) THEN d[3] ELSE d[2]

(***************************************************************************)
(* C21: the body of the request carries the documented default (type 'sw', *)
(* arch 64, lang 'en') when the caller gave no value for the optional      *)
(* parameter or gave '' or 0, and the caller's value in every other case.  *)
(***************************************************************************)
C21_DefaultsUnlessTruthy ==
  (last.op = "call" /\ ~last.thrown) =>
    \A d \in Defaulted(last) :
      Member(last.req[1].data, d[1])
        = IF IsUndefined(d[2]) \/ Falsy(d[2]) THEN d[3] ELSE d[2]

\* a reset was requested without a type and went out with type 'sw'
C21_Witness ==
  /\ last.op = "call" /\ ~last.thrown /\ last.m = "resetServer"
  /\ IsUndefined(Arg(last.args, 2))
  /\ Member(last.req[1].data, "type") = Str(<< "s", "w" >>)

(***************************************************************************)
(* C22 (as stated): changeTrafficWarnings(ip, cfg) throws exactly when ip, *)
(* cfg or one of enableWarnings, hourlyThreshold, dailyThreshold and       *)
(* monthlyThreshold is missing; otherwise it issues one POST to /ip/{ip}   *)
(* whose body maps the four members to traffic_warnings, traffic_hourly,   *)
(* traffic_daily and traffic_monthly.                                      *)
(***************************************************************************)
C22_AsStated ==
  (last.op = "call" /\ last.m = "changeTrafficWarnings") =>
    LET ip == Arg(last.args, 1)
        cfg == Arg(last.args, 2)
        complete == /\ ~IsUndefined(ip) /\ ~IsUndefined(cfg)
                    /\ \A i \in 1..4 : HasOwnProperty(cfg, TrafficMembers[i]) IN
    /\ last.thrown = ~complete
    /\ complete =>
         last.req = << Request("A", "post", "/ip", << StringOf(ip) >>,
                         << << "traffic_warnings", Prop(cfg, "enableWarnings") >>,
                            << "traffic_hourly", Prop(cfg, "hourlyThreshold") >>,
                            << "traffic_daily", Prop(cfg, "dailyThreshold") >>,
                            << "traffic_monthly", Prop(cfg, "monthlyThreshold") >> >>) >>

(***************************************************************************)
(* C23 (as stated): queryCancellationStatus, createCancellation and        *)
(* removeCancellation send GET, POST and DELETE to                         *)
(* /server/{ip}/cancellation, and none of them sends to /server/{ip}.      *)
(***************************************************************************)
C23_AsStated ==
  (/\ last.op = "call" /\ ~last.thrown
   /\ last.m \in {"queryCancellationStatus", "createCancellation", "removeCancellation"})
    => /\ Len(last.req) = 1
       /\ last.req[1].base = "/server"
       /\ last.req[1].arg = << StringOf(last.key), Cancellation >>
       /\ last.req[1].verb = CASE last.m = "queryCancellationStatus" -> "get"
                               [] last.m = "createCancellation" -> "post"
                               [] OTHER -> "delete"

\* the key a handle stands for: the name it is looked up by (proxy), the
\* key it was constructed with (class)
KeyOf(h) == IF impl = "proxy" THEN Str(h.name) ELSE h.key

(***************************************************************************)
(* C24 (as stated): among all the handle objects ever created there are no *)
(* two for the same client, kind and key, whatever registers, lookups and  *)
(* unregisters have happened.                                              *)
(***************************************************************************)
C24_AsStated ==
  \A h1 \in Handles : \A h2 \in Handles :
    (/\ heap[h1].client = heap[h2].client
     /\ heap[h1].kind = heap[h2].kind
     /\ KeyOf(heap[h1]) = KeyOf(heap[h2]))
      => h1 = h2

C26_RegistriesChangeOnlyByRegistry ==
  [][Registries' # Registries
       => (last'.m \in RegistryNames /\ ~last'.thrown
           /\ last'.op \in {"client", "handle"})]_vars

\* a lookup, then an API operation through the handle, happened with a
\* non-empty registry
C26_Witness ==
  /\ last.op = "handle" /\ last.m \in Endpoints(impl) /\ ~last.thrown
  /\ Held(last.c, heap[last.h].kind, KeyOf(heap[last.h]))

(***************************************************************************)
(* C29 (as stated): no name invoked on a handle changes the registries of  *)
(* the owning client, the names registerServer, registerStorageBox,        *)
(* unregisterServer and unregisterStorageBox included.                     *)
(***************************************************************************)
C29_AsStated ==
  \A h \in Handles : \A m \in MethodNames : \A args \in CallerArgs :
    RegistriesOf(HandleInvoke(heap[h], m, args)) = Registries

(***************************************************************************)
(* C27: requests are not serialized.  A call can be made whatever the      *)
(* state of the earlier requests (it is enabled as long as the model has   *)
(* room for a request), so several promises can be pending at once; the    *)
(* responses arrive in any order, and every promise is pending until its   *)
(* own response has arrived and is then settled with what _parseResponse   *)
(* makes of that response.                                                 *)
(***************************************************************************)
C27_NotSerialized ==
  /\ Len(wire) < MaxExchanges => ENABLED MockCall
  /\ Len(promises) = Len(wire)
  /\ \A i \in 1..Len(wire) :
       promises[i] = IF wire[i].state = "answered"
                     THEN _parseResponse(wire[i].statusCode, wire[i].body).promise
                     ELSE Pending

\* two requests were pending at once; the later one has been answered and
\* its promise resolved while the earlier one is still pending
C27_Witness ==
  /\ Len(wire) >= 2
  /\ wire[1].state \in {"sent", "served"} /\ promises[1].state = "pending"
  /\ wire[2].state = "answered" /\ promises[2].state = "resolved"
  /\ wire[2].after = {}

(***************************************************************************)
(* The route handlers of the mock server, taken one request at a time.     *)
(* Both versions of the server are modelled.  Entries of the mockup        *)
(* database are identified by their position in the seeded lists; an id    *)
(* one above the seeded ones stands for any value that matches no entry.   *)
(* Servers and storage boxes are never removed; SSH keys and snapshots     *)
(* are.  `pushed` tells whether POST /storagebox/:id/snapshot has added an *)
(* entry to the box: such an entry is {name, timestamp, size} and has no   *)
(* `snapshot` member.  For a request the model keeps every call of         *)
(* res.send the handler makes, in order: the status code, the shape of     *)
(* the body ("data", "envelope" for {error: {status, code, message}},      *)
(* "bare" for {status, code, message}) and the code.                       *)
(***************************************************************************)
Ok == [statusCode |-> 200, shape |-> "data", code |-> ""]
Enveloped(statusCode, code) == [statusCode |-> statusCode, shape |-> "envelope", code |-> code]
Bare(statusCode, code) == [statusCode |-> statusCode, shape |-> "bare", code |-> code]

\* clientsDatabase.test as seeded by each version of the server
MockSeed(version) ==
  [version |-> version,
   servers |-> {1},
   storageBoxes |-> {1},
   snapshots |-> IF version = 2 THEN {1, 2, 3} ELSE {},
   pushed |-> FALSE,
   vServers |-> IF version = 2 THEN << TRUE, TRUE, FALSE >> ELSE << >>,
   sshKeys |-> IF version = 2 THEN {1, 2} ELSE {}]

\* util.getServerByIp, util.getStorageBoxById, util.getSSHKeyByFingerprint:
\* the first version does not return after the response for an empty list
getById(version, list, id, code, callback) ==
  LET none == << Enveloped(404, "NOT_FOUND") >>
      rest == IF id \in list THEN callback ELSE << Enveloped(404, code) >>
  IN  IF list = {} THEN (IF version = 1 THEN none \o rest ELSE none) ELSE rest

\* a route that sends a whole list; `returns` tells whether the handler
\* returns after the response for an empty list
getAll(list, returns) ==
  IF list = {}
  THEN (IF returns THEN << Enveloped(404, "NOT_FOUND") >>
        ELSE << Enveloped(404, "NOT_FOUND"), Ok >>)
  ELSE << Ok >>

MockRoutes(version) ==
  {"GET /server", "GET /server/:ipAddress", "POST /server/:ipAddress",
   "GET /storagebox", "GET /storagebox/:id", "POST /storagebox/:id",
   "GET /reset", "GET /reset/:ipAddress"}
  \cup (IF version = 2
        THEN {"GET /storagebox/:id/snapshot", "POST /storagebox/:id/snapshot",
              "DELETE /storagebox/:id/snapshot/:name",
              "POST /storagebox/:id/snapshot/:name",
              "GET /key", "GET /key/:fingerprint", "POST /key/:fingerprint",
              "DELETE /key/:fingerprint", "POST /vserver/:ipAddress/command"}
        ELSE {})

VServerCommands == {"start", "stop", "shutdown", "reboot"}

\* the requests a client can make: id is the :ipAddress, :id or :fingerprint
\* parameter, name the :name parameter, valid tells whether the request
\* carries the parameter the route asks for (server_name, storagebox_name,
\* revert), type is the command of the virtual-server route; a parameter
\* the route does not read is left at one value.  The authentication
\* middleware runs before the routes and reads none of this.
MockRequests(version) ==
  LET with(route, ids, names, valids, types) ==
        [route : {route}, authorized : {TRUE}, id : ids, name : names,
         valid : valids, type : types]
      Route(route) ==
        with(route,
             IF route \in {"GET /server", "GET /storagebox", "GET /reset", "GET /key"}
             THEN {1} ELSE 1..4,
             IF route \in {"DELETE /storagebox/:id/snapshot/:name",
                           "POST /storagebox/:id/snapshot/:name"}
             THEN 1..4 ELSE {1},
             IF route \in {"POST /server/:ipAddress", "POST /storagebox/:id",
                           "POST /storagebox/:id/snapshot/:name"}
             THEN BOOLEAN ELSE {TRUE},
             IF route = "POST /vserver/:ipAddress/command"
             THEN VServerCommands ELSE {"start"})
  IN UNION {Route(route) : route \in MockRoutes(version)}
     \cup {[route |-> "GET /server", authorized |-> FALSE, id |-> 1, name |-> 1,
            valid |-> TRUE, type |-> "start"]}

\* what the handler of the route does with an authorized request: the
\* responses it sends, the database it leaves, and whether it throws
MockHandler(req, db) ==
  LET v == db.version
      done(sends) == [sends |-> sends, db |-> db, thrown |-> FALSE]
      invalid == << Enveloped(400, "INVALID_INPUT") >>
      rename(list, code) ==
        IF ~req.valid
        THEN (IF v = 1 THEN invalid \o getById(v, list, req.id, code, << Ok >>)
              ELSE invalid)
        ELSE getById(v, list, req.id, code, << Ok >>)
      \* the loop over storagebox.snapshots reads .snapshot.name of each entry
      named == req.name \in db.snapshots
      throws == ~named /\ db.pushed
  IN CASE req.route = "GET /server" -> done(getAll(db.servers, v = 2))
       [] req.route = "GET /server/:ipAddress" ->
            IF v = 1
            THEN done((IF db.servers = {} THEN << Enveloped(404, "NOT_FOUND") >> ELSE << >>)
                      \o (IF req.id \in db.servers THEN << Ok >> ELSE << >>)
                      \o << Enveloped(404, "SERVER_NOT_FOUND") >>)
            ELSE done(getById(v, db.servers, req.id, "SERVER_NOT_FOUND", << Ok >>))
       [] req.route = "POST /server/:ipAddress" ->
            done(rename(db.servers, "SERVER_NOT_FOUND"))
       [] req.route = "GET /storagebox" -> done(getAll(db.storageBoxes, FALSE))
       [] req.route = "GET /storagebox/:id" ->
            done(getById(v, db.storageBoxes, req.id, "STORAGEBOX_NOT_FOUND", << Ok >>))
       [] req.route = "POST /storagebox/:id" ->
            done(rename(db.storageBoxes, "STORAGEBOX_NOT_FOUND"))
       [] req.route = "GET /storagebox/:id/snapshot" ->
            done(getById(v, db.storageBoxes, req.id, "STORAGEBOX_NOT_FOUND", << Ok >>))
       [] req.route = "POST /storagebox/:id/snapshot" ->
            [sends |-> getById(v, db.storageBoxes, req.id, "STORAGEBOX_NOT_FOUND", << Ok >>),
             db |-> IF req.id \in db.storageBoxes THEN [db EXCEPT !.pushed = TRUE] ELSE db,
             thrown |-> FALSE]
       [] req.route = "DELETE /storagebox/:id/snapshot/:name" ->
            IF req.id \notin db.storageBoxes
            THEN done(<< Bare(404, "STORAGEBOX_NOT_FOUND") >>)
            ELSE IF named
            THEN [sends |-> << Ok >>,
                  db |-> [db EXCEPT !.snapshots = @ \ {req.name}],
                  thrown |-> FALSE]
            ELSE IF throws THEN [sends |-> << >>, db |-> db, thrown |-> TRUE]
            ELSE done(<< Bare(404, "SNAPSHOT_NOT_FOUND") >>)
       [] req.route = "POST /storagebox/:id/snapshot/:name" ->
            IF req.id \notin db.storageBoxes
            THEN done(getById(v, db.storageBoxes, req.id, "STORAGEBOX_NOT_FOUND", << >>))
            ELSE IF ~req.valid THEN done(<< Bare(400, "INVALID_INPUT") >>)
            ELSE IF named THEN done(<< Ok >>)
            ELSE IF throws THEN [sends |-> << >>, db |-> db, thrown |-> TRUE]
            ELSE done(<< Bare(404, "SNAPSHOT_NOT_FOUND") >>)
       [] req.route \in {"GET /reset", "GET /reset/:ipAddress"} -> done(<< >>)
       [] req.route = "GET /key" -> done(getAll(db.sshKeys, FALSE))
       [] req.route \in {"GET /key/:fingerprint", "POST /key/:fingerprint"} ->
            done(getById(v, db.sshKeys, req.id, "NOT_FOUND", << Ok >>))
       [] req.route = "DELETE /key/:fingerprint" ->
            [sends |-> getById(v, db.sshKeys, req.id, "NOT_FOUND", << Ok >>),
             db |-> [db EXCEPT !.sshKeys = @ \ {req.id}],
             thrown |-> FALSE]
       [] req.route = "POST /vserver/:ipAddress/command" ->
            IF req.id \in DOMAIN db.vServers /\ req.type # "reboot"
            THEN LET online == db.vServers[req.id] IN
                 IF online = (req.type = "start")
                 THEN done(<< Bare(500, "INTERNAL_ERROR") >>)
                 ELSE [sends |-> << Ok >>,
                       db |-> [db EXCEPT !.vServers[req.id] = ~online],
                       thrown |-> FALSE]
            ELSE done(<< Bare(404, "SERVER_NOT_FOUND") >>)

\* the server takes one request: the authentication middleware, the route
\* handler and, when the handler throws, the 'uncaughtException' listener
MockHandle ==
  \E req \in MockRequests(clientsDatabase.version) :
    LET r == MockHandler(req, clientsDatabase)
        sends == IF ~req.authorized THEN << Enveloped(401, "UNAUTHORIZED") >>
                 ELSE IF r.thrown THEN r.sends \o << Enveloped(500, "PSEUDO_API_FAIL") >>
                 ELSE r.sends
    IN /\ wire' = << [req |-> req, sends |-> sends] >>
       /\ clientsDatabase' = IF req.authorized THEN r.db ELSE clientsDatabase
       /\ UNCHANGED << impl, _customServers, _customStorageBoxes, ServerCache,
                       StorageBoxCache, heap, last, promises, uncaught >>

InitRoutes ==
  /\ wire = << >>
  /\ promises = << >>
  /\ uncaught = << >>
  /\ clientsDatabase \in {MockSeed(1), MockSeed(2)}
  /\ impl = "class"
  /\ _customServers = [c \in Clients |-> EmptyMap]
  /\ _customStorageBoxes = [c \in Clients |-> EmptyMap]
  /\ ServerCache = EmptyMap
  /\ StorageBoxCache = EmptyMap
  /\ heap = << >>
  /\ last = [op |-> "init", c |-> "A", h |-> 0, m |-> "", key |-> Undefined,
             thrown |-> FALSE, error |-> NoError, ret |-> 0, req |-> << >>]

SpecRoutes == InitRoutes /\ [][MockHandle]_vars

(***************************************************************************)
(* C28: every failure response the mock server sends (any status other     *)
(* than 200 or 201, on every route, the snapshot routes, the virtual-      *)
(* server command route and the uncaught-exception listener included) has  *)
(* a body of the shape {error: {status, code, message}} and one of the     *)
(* codes NOT_FOUND, SERVER_NOT_FOUND, STORAGEBOX_NOT_FOUND, INVALID_INPUT, *)
(* INTERNAL_ERROR, UNAUTHORIZED, KEY_DELETE_FAILED.                        *)
(***************************************************************************)
C28_AsStated ==
  \A i \in 1..Len(wire) : \A k \in 1..Len(wire[i].sends) :
    LET response == wire[i].sends[k] IN
    response.statusCode \notin {200, 201}
      => /\ response.shape = "envelope"
         /\ response.code \in {"NOT_FOUND", "SERVER_NOT_FOUND", "STORAGEBOX_NOT_FOUND",
                               "INVALID_INPUT", "INTERNAL_ERROR", "UNAUTHORIZED",
                               "KEY_DELETE_FAILED"}

(***************************************************************************)
(* C30: the mock server sends exactly one response to every authenticated  *)
(* request on every route: no handler sends a second response after a      *)
(* first one, and no handler returns without sending one.                  *)
(***************************************************************************)
C30_AsStated ==
  \A i \in 1..Len(wire) : wire[i].req.authorized => Len(wire[i].sends) = 1

====
